---- MODULE Spec2Model ----
(***************************************************************************)
(* Verification model of EzRedbiom: the command validator, the process     *)
(* runner and the chat page of streamlit_redbiom_app.py, the command       *)
(* builders and the agent loop of Langchain_attempts/nother_file.py, and   *)
(* the workflow wizard of streamlit_attempts/app.py.                       *)
(*                                                                         *)
(* Python strings are TLA+ strings; TLC evaluates Len, \o, SubSeq, Head    *)
(* and Tail on them, so every string operation of the code (startswith,    *)
(* `in`, split, strip, endswith, isdigit, join) is computed character by   *)
(* character as Python computes it.                                        *)
(***************************************************************************)
EXTENDS FiniteSets, Integers, Sequences, TLC

VARIABLES
    pc,           \* position of the caller: "idle", "called", "returned", "shown"
    command,      \* argument of validate_redbiom_command
    origin,       \* who produced the command: "model" or the builder's name
    args,         \* the arguments the builder was called with
    result,       \* value returned by validate_redbiom_command
    issues,       \* the function's local list `issues` when it ended
    suggestions,  \* the function's local list `suggestions` when it ended
    ui,           \* what main() did with the result
    proc,         \* a call of a process runner and the subprocess it starts
    wizard,       \* the workflow wizard: workflow_state, the files on disk
    agent,        \* a call of run_agent: its locals and its position
    chat,         \* the chat page: st.session_state of streamlit_redbiom_app
    threads       \* concurrent calls of validate_redbiom_command, one per thread

vars == <<pc, command, origin, args, result, issues, suggestions, ui, proc, wizard, agent, chat, threads>>

\* The variables of the validator and of the builders.
commandVars == <<pc, command, origin, args, result, issues, suggestions, ui>>

(***************************************************************************)
(* Bounds of the model.                                                    *)
(***************************************************************************)
MaxArgs == 1

MaxList == 2

(***************************************************************************)
(* Python string primitives.                                               *)
(***************************************************************************)
\* The ASCII characters str.strip() and str.split() treat as whitespace that a
\* TLA+ string can hold (vertical tab and the separators \x1c-\x1f cannot be
\* written).
Whitespace == {" ", "\t", "\n", "\r", "\f"}

Digits == {"0", "1", "2", "3", "4", "5", "6", "7", "8", "9"}

CharAt(s, i) == SubSeq(s, i, i)

startswith(s, p) == Len(s) >= Len(p) /\ SubSeq(s, 1, Len(p)) = p

endswith(s, p) == Len(s) >= Len(p) /\ SubSeq(s, Len(s) - Len(p) + 1, Len(s)) = p

\* Python `p in s` for strings: p occurs as a substring of s.
contains(s, p) == \E i \in 1..(Len(s) - Len(p) + 1) : SubSeq(s, i, i + Len(p) - 1) = p

RECURSIVE lstrip(_)
lstrip(s) ==
    IF Len(s) > 0 /\ CharAt(s, 1) \in Whitespace THEN lstrip(Tail(s)) ELSE s

RECURSIVE rstrip(_)
rstrip(s) ==
    IF Len(s) > 0 /\ CharAt(s, Len(s)) \in Whitespace
    THEN rstrip(SubSeq(s, 1, Len(s) - 1))
    ELSE s

strip(s) == rstrip(lstrip(s))

\* Length of the leading run of non-whitespace characters of s.
RECURSIVE WordLen(_)
WordLen(s) ==
    IF Len(s) = 0 \/ CharAt(s, 1) \in Whitespace THEN 0 ELSE 1 + WordLen(Tail(s))

\* str.split() without arguments: the maximal runs of non-whitespace.
RECURSIVE split(_)
split(s) ==
    LET t == lstrip(s)
        n == WordLen(t)
    IN  IF Len(t) = 0 THEN <<>>
        ELSE <<SubSeq(t, 1, n)>> \o split(SubSeq(t, n + 1, Len(t)))

\* str.isdigit() on ASCII text.
isdigit(s) == Len(s) > 0 /\ \A i \in 1..Len(s) : CharAt(s, i) \in Digits

RECURSIVE join(_, _)
join(sep, parts) ==
    IF Len(parts) = 0 THEN ""
    ELSE IF Len(parts) = 1 THEN parts[1]
    ELSE parts[1] \o sep \o join(sep, Tail(parts))

\* list.index(x): position of the first occurrence (1-based), 0 for ValueError.
index(parts, x) ==
    IF \E i \in 1..Len(parts) : parts[i] = x
    THEN CHOOSE i \in 1..Len(parts) : parts[i] = x /\ \A j \in 1..(i - 1) : parts[j] # x
    ELSE 0

InList(x, parts) == \E i \in 1..Len(parts) : parts[i] = x

(***************************************************************************)
(* Python dicts keep insertion order: a dict is a sequence of <<key,       *)
(* value>> pairs.                                                          *)
(***************************************************************************)
keys(d) == [i \in 1..Len(d) |-> d[i][1]]

HasKey(d, k) == \E i \in 1..Len(d) : d[i][1] = k

Get(d, k) == d[CHOOSE i \in 1..Len(d) : d[i][1] = k][2]

(***************************************************************************)
(* validate_redbiom_command (streamlit_redbiom_app.py).                    *)
(***************************************************************************)
\* The table with a required flag of fetch qiita-study forgotten.
required_subcommands_without_study_id ==
    << <<"search", << <<"features", <<"--context">> >>,
                      <<"samples", <<"--context">> >>,
                      <<"taxon", <<"--context">> >>,
                      <<"metadata", <<>> >> >> >>,
       <<"fetch", << <<"tags-contained", <<"--context">> >>,
                     <<"samples-contained", <<>> >>,
                     <<"features-contained", <<>> >>,
                     <<"sample-metadata", <<"--output">> >>,
                     <<"features", <<"--context", "--output">> >>,
                     <<"samples", <<"--context", "--output">> >>,
                     <<"qiita-study", <<"--context", "--output-basename">> >> >> >>,
       <<"summarize", << <<"contexts", <<>> >>,
                         <<"metadata-category", <<"--category">> >>,
                         <<"metadata", <<>> >>,
                         <<"table", <<"--category", "--context", "--table">> >>,
                         <<"features", <<"--category", "--context">> >>,
                         <<"samples", <<"--category">> >>,
                         <<"taxonomy", <<"--context">> >> >> >>,
       <<"select", << <<"samples-from-metadata", <<"--context">> >>,
                      <<"features-from-samples", <<"--context">> >> >> >> >>

required_subcommands ==
    << <<"search", << <<"features", <<"--context">> >>,
                      <<"samples", <<"--context">> >>,
                      <<"taxon", <<"--context">> >>,
                      <<"metadata", <<>> >> >> >>,
       <<"fetch", << <<"tags-contained", <<"--context">> >>,
                     <<"samples-contained", <<>> >>,
                     <<"features-contained", <<>> >>,
                     <<"sample-metadata", <<"--output">> >>,
                     <<"features", <<"--context", "--output">> >>,
                     <<"samples", <<"--context", "--output">> >>,
                     <<"qiita-study", <<"--context", "--study-id", "--output-basename">> >> >> >>,
       <<"summarize", << <<"contexts", <<>> >>,
                         <<"metadata-category", <<"--category">> >>,
                         <<"metadata", <<>> >>,
                         <<"table", <<"--category", "--context", "--table">> >>,
                         <<"features", <<"--category", "--context">> >>,
                         <<"samples", <<"--category">> >>,
                         <<"taxonomy", <<"--context">> >> >> >>,
       <<"select", << <<"samples-from-metadata", <<"--context">> >>,
                      <<"features-from-samples", <<"--context">> >> >> >> >>

\* The function builds both tables as locals; the operators ending in _in read
\* the table of the call they belong to.
valid_subcommands_in(table) ==
    keys(table) \o <<"stat", "feature-table", "tree", "context", "admin">>

valid_subcommands == valid_subcommands_in(required_subcommands)

output_flags == <<"--output-file", "--output", "--output-basename">>

valid_extensions == <<".txt", ".tsv", ".csv", ".biom", ".qza", ".json">>

\* Assigned on the last line of the function and never read.  The list's sixth
\* pattern, the backquote, cannot be written in a TLA+ string and is left out.
dangerous_patterns == <<";", "&&", "||", ">", "<">>

\* No builder was called.
NoArgs == [builder |-> "none"]

\* The values a call of the function can produce.
None == [tag |-> "None"]

Pending == [tag |-> "pending"]

Tuple(v, i, s) == [tag |-> "tuple", is_valid |-> v, issues |-> i, suggestions |-> s]

\* A check's contribution to the two lists.
Findings(i, s) == [issues |-> i, suggestions |-> s]

NoFindings == Findings(<<>>, <<>>)

Plus(f, g) == Findings(f.issues \o g.issues, f.suggestions \o g.suggestions)

\* The test skipped for an empty command: `if command and not ...`.
ProgramNameFails_unless_empty(c) == c # "" /\ ~startswith(c, "redbiom")

\* `if not command.startswith('redbiom')`
ProgramNameFails(c) == ~startswith(c, "redbiom")

\* `if param not in command` : the test is on the raw string.
ParamMissing(param, c) == ~contains(c, param)

\* The loop over required_params.
RequiredParamFindings_in(table, subcommand, action, c) ==
    LET required_params == Get(Get(table, subcommand), action)
        missing == SelectSeq(required_params, LAMBDA param : ParamMissing(param, c))
    IN  Findings(
            [i \in 1..Len(missing) |->
                "Missing required parameter '" \o missing[i] \o "' for '"
                    \o subcommand \o " " \o action \o "'"],
            [i \in 1..Len(missing) |->
                "Add " \o missing[i] \o " parameter with appropriate value"])

RequiredParamFindings(subcommand, action, c) ==
    RequiredParamFindings_in(required_subcommands, subcommand, action, c)

\* The action test of a subcommand that has detailed rules, command_parts
\* holding at least three tokens.
ActionFindings_in(table, subcommand, action, c) ==
    IF ~HasKey(Get(table, subcommand), action)
    THEN Findings(
            <<"Unknown action '" \o action \o "' for subcommand '" \o subcommand \o "'">>,
            <<"Use one of: " \o join(", ", keys(Get(table, subcommand)))>>)
    ELSE RequiredParamFindings_in(table, subcommand, action, c)

ActionFindings(subcommand, action, c) ==
    ActionFindings_in(required_subcommands, subcommand, action, c)

\* The output check with its suggestions.append left out.
OutputFindings_without_suggestion(c, command_parts) ==
    LET has_output_flag == \E i \in 1..Len(output_flags) : contains(c, output_flags[i])
        has_valid_extension ==
            \E k \in 1..Len(command_parts) : \E e \in 1..Len(valid_extensions) :
                endswith(command_parts[k], valid_extensions[e])
    IN  IF has_output_flag /\ ~has_valid_extension
        THEN Findings(<<"Output file specified but no valid file extension found">>, <<>>)
        ELSE NoFindings

OutputFindings(c, command_parts) ==
    LET has_output_flag == \E i \in 1..Len(output_flags) : contains(c, output_flags[i])
        has_valid_extension ==
            \E k \in 1..Len(command_parts) : \E e \in 1..Len(valid_extensions) :
                endswith(command_parts[k], valid_extensions[e])
    IN  IF has_output_flag /\ ~has_valid_extension
        THEN Findings(
                <<"Output file specified but no valid file extension found">>,
                <<"Specify output file with proper extension: " \o join(", ", valid_extensions)>>)
        ELSE NoFindings

StudyIdFindings(c, command_parts) ==
    LET study_id_idx == index(command_parts, "--study-id")
    IN  IF contains(c, "--study-id")
           /\ study_id_idx # 0
           /\ study_id_idx + 1 <= Len(command_parts)
           /\ ~isdigit(command_parts[study_id_idx + 1])
        THEN Findings(<<"Study ID should be a number">>,
                      <<"Use a numeric study ID (e.g., --study-id 12345)">>)
        ELSE NoFindings

CategoryFindings(c, command_parts) ==
    LET cat_idx == index(command_parts, "--category")
    IN  IF contains(c, "--category")
           /\ cat_idx # 0
           /\ cat_idx + 1 <= Len(command_parts)
           /\ Len(strip(command_parts[cat_idx + 1])) = 0
        THEN Findings(<<"Category parameter cannot be empty">>,
                      <<"Provide a valid metadata category name">>)
        ELSE NoFindings

ContextFindings(c, command_parts) ==
    LET ctx_idx == index(command_parts, "--context")
    IN  IF ~contains(c, "--context") THEN NoFindings
        ELSE IF ctx_idx = 0
        THEN \* ValueError of command_parts.index
             Findings(<<"--context flag found but no context name provided">>,
                      <<"Add a context name after --context flag">>)
        ELSE IF ctx_idx + 1 <= Len(command_parts)
                /\ (Len(strip(command_parts[ctx_idx + 1])) = 0
                    \/ startswith(command_parts[ctx_idx + 1], "-"))
        THEN Findings(<<"Context parameter appears to be missing or invalid">>,
                      <<"Provide a valid context name after --context">>)
        ELSE NoFindings

\* What one call does: the value it returns and its two local lists when it
\* ends.  Three early exits return a tuple; the path through the checks
\* reaches the end of the function body, where no return statement stands.
Ended(r, f) == [result |-> r, issues |-> f.issues, suggestions |-> f.suggestions]

Return(v, f) == Ended(Tuple(v, f.issues, f.suggestions), f)

FallOffEnd(f) == Ended(None, f)

validate_redbiom_command_in(table, cmd) ==
    LET c == strip(cmd)
        command_parts == split(c)
    IN  IF ProgramNameFails(c)
        THEN Return(FALSE, Findings(<<"Command doesn't start with 'redbiom'">>,
                                    <<"Add 'redbiom' at the beginning">>))
        ELSE IF Len(command_parts) < 2
        THEN Return(FALSE, Findings(
                <<"Command appears incomplete - missing subcommand">>,
                <<"Add a subcommand like: " \o join(", ", keys(table))>>))
        ELSE IF ~InList(command_parts[2], valid_subcommands_in(table))
        THEN Return(FALSE, Findings(
                <<"Unknown subcommand: '" \o command_parts[2] \o "'">>,
                <<"Use one of: " \o join(", ", valid_subcommands_in(table))>>))
        ELSE IF HasKey(table, command_parts[2]) /\ Len(command_parts) < 3
        THEN LET actions == keys(Get(table, command_parts[2]))
             IN  Return(FALSE, Findings(
                    <<"Missing action for '" \o command_parts[2] \o "' subcommand">>,
                    <<"Add an action like: "
                        \o join(", ", SubSeq(actions, 1, IF Len(actions) < 3 THEN Len(actions) ELSE 3))>>))
        ELSE LET detailed ==
                    IF HasKey(table, command_parts[2])
                    THEN ActionFindings_in(table, command_parts[2], command_parts[3], c)
                    ELSE NoFindings
             IN  FallOffEnd(Plus(detailed,
                            Plus(OutputFindings(c, command_parts),
                            Plus(StudyIdFindings(c, command_parts),
                            Plus(CategoryFindings(c, command_parts),
                                 ContextFindings(c, command_parts))))))

validate_redbiom_command(cmd) == validate_redbiom_command_in(required_subcommands, cmd)

(***************************************************************************)
(* Command strings handed to the validator.  They come from a language     *)
(* model or from the user's text area, so any string can arrive; the model *)
(* draws them from a program token, a subcommand token, an action token    *)
(* and up to MaxArgs argument fragments.                                   *)
(***************************************************************************)
ProgTokens == {"redbiom", "redbiomx", "rebiom"}

SubcommandTokens == {"search", "fetch", "summarize", "select", "admin", "stat", "bogus"}

ActionTokens ==
    UNION {{required_subcommands[i][2][j][1] : j \in 1..Len(required_subcommands[i][2])} :
              i \in 1..Len(required_subcommands)}
    \cup {"bogus"}

ArgFragments ==
    { "feature1",
      "--context ctxA",
      "--context",
      "--context=ctxA",
      "--output out.biom",
      "--output-basename base",
      "--study-id abc",
      "--study-id",
      "--category c --context -x",
      "--context ctxA --output out.biom; rm -rf /",
      "--study-id 10317 \"unbalanced" }

Heads ==
    ProgTokens
    \cup {p \o " " \o s : p \in ProgTokens, s \in SubcommandTokens}
    \cup {p \o " " \o s \o " " \o a : p \in ProgTokens, s \in SubcommandTokens, a \in ActionTokens}

RECURSIVE Tails(_)
Tails(n) ==
    IF n = 0 THEN {""}
    ELSE Tails(n - 1) \cup {t \o " " \o f : t \in Tails(n - 1), f \in ArgFragments}

Blank == {"", " ", " \t\n", "\"", "  redbiom  "}

Commands == Blank \cup {h \o t : h \in Heads, t \in Tails(MaxArgs)}

(***************************************************************************)
(* The validator and its caller main().                                    *)
(***************************************************************************)
\* No runner call is under way.
ProcIdle == [pc |-> "idle"]

\* The context the wizard starts with.
WizardContext == "Woltka-per-genome-WoLr2-3ab352"

\* st.session_state.workflow_state as initialize_session_state sets it.
initial_workflow_state ==
    [ current_step |-> 0,
      completed_steps |-> <<>>,
      study_id |-> "",
      context |-> WizardContext,
      sample_file |-> "",
      metadata_file |-> "",
      biom_file |-> "",
      step_outputs |-> <<>>,
      command_history |-> <<>> ]

\* The wizard before its first interaction: no output file exists yet and no
\* command has been run.
WizardInit ==
    [ws |-> initial_workflow_state, files |-> {}, succeeded |-> {}]

\* run_agent has not been called.
AgentIdle == [pc |-> "idle"]

\* st.session_state of the chat page as initialize_session_state sets it;
\* sent is the message list of the last request to the model.
ChatInit ==
    [ conversation_history |-> <<>>,
      generated_command |-> "",
      command_outputs |-> <<>>,
      streaming_enabled |-> TRUE,
      sent |-> <<>> ]

\* Threads that may call the validator at the same time.
NumThreads == 2

Threads == 1..NumThreads

ThreadIdle == [pc |-> "idle"]

Init ==
    /\ pc = "idle"
    /\ command = ""
    /\ origin = "none"
    /\ args = NoArgs
    /\ result = Pending
    /\ issues = <<>>
    /\ suggestions = <<>>
    /\ ui = "none"
    /\ proc = ProcIdle
    /\ wizard = WizardInit
    /\ agent = AgentIdle
    /\ chat = ChatInit
    /\ threads = [t \in Threads |-> ThreadIdle]

\* main() reaches a call of validate_redbiom_command with the generated or
\* the edited command.
Call ==
    /\ pc = "idle"
    /\ \E cmd \in Commands : command' = cmd
    /\ origin' = "model"
    /\ pc' = "called"
    /\ UNCHANGED <<args, result, issues, suggestions, ui>>
    /\ UNCHANGED <<proc, wizard, agent, chat, threads>>

Validate ==
    /\ pc = "called"
    /\ LET e == validate_redbiom_command(command)
       IN  /\ result' = e.result
           /\ issues' = e.issues
           /\ suggestions' = e.suggestions
    /\ pc' = "returned"
    /\ UNCHANGED <<command, origin, args, ui>>
    /\ UNCHANGED <<proc, wizard, agent, chat, threads>>

\* `is_valid, issues, suggestions = validate_redbiom_command(...)` and the
\* display that follows; unpacking None raises TypeError.
Unpack ==
    /\ pc = "returned"
    /\ origin = "model"
    /\ ui' = IF result.tag = "None" THEN "TypeError"
             ELSE IF result.is_valid THEN "success"
             ELSE "errors"
    /\ pc' = "shown"
    /\ UNCHANGED <<command, origin, args, result, issues, suggestions>>
    /\ UNCHANGED <<proc, wizard, agent, chat, threads>>

\* The next user interaction reruns the script.
Rerun ==
    /\ pc = "shown"
    /\ pc' = "idle"
    /\ command' = ""
    /\ origin' = "none"
    /\ args' = NoArgs
    /\ result' = Pending
    /\ issues' = <<>>
    /\ suggestions' = <<>>
    /\ ui' = "none"
    /\ UNCHANGED <<proc, wizard, agent, chat, threads>>

Next == Call \/ Validate \/ Unpack \/ Rerun

Spec == Init /\ [][Next]_vars

(***************************************************************************)
(* The command builders of Langchain_attempts/nother_file.py.  Each returns *)
(* the command string; an Optional argument is <<>> for None and <<v>> for *)
(* a value v.                                                              *)
(***************************************************************************)
NoneArg == <<>>

Some(v) == <<v>>

\* Truth value of an Optional[str] / Optional[List[str]] in `if x:`.
TruthyStr(o) == o # NoneArg /\ o[1] # ""

TruthyList(o) == o # NoneArg /\ Len(o[1]) > 0

\* str() of an integer, as an f-string formats it.
RECURSIVE NatStr(_)
NatStr(n) ==
    IF n < 10 THEN CharAt("0123456789", n + 1)
    ELSE NatStr(n \div 10) \o CharAt("0123456789", (n % 10) + 1)

str(n) == IF n < 0 THEN "-" \o NatStr(0 - n) ELSE NatStr(n)

\* The text appended whether or not the flag is set.
Opt_always(flag, text) == text

\* `if flag: cmd += text`
Opt(flag, text) == IF flag THEN text ELSE ""

search_features(context, features, exact, min_count) ==
    "redbiom search features --context " \o context
        \o Opt(exact, " --exact")
        \o " --min-count " \o str(min_count)
        \o " " \o join(" ", features)

search_samples(context, samples, exact, min_count) ==
    "redbiom search samples --context " \o context
        \o Opt(exact, " --exact")
        \o " --min-count " \o str(min_count)
        \o " " \o join(" ", samples)

search_metadata(query, categories) ==
    "redbiom search metadata"
        \o Opt(categories, " --categories")
        \o " \"" \o query \o "\""

search_taxon(context, taxon) ==
    "redbiom search taxon --context " \o context \o " \"" \o taxon \o "\""

RECURSIVE ForceCategories(_)
ForceCategories(cats) ==
    IF Len(cats) = 0 THEN ""
    ELSE " --force-category " \o Head(cats) \o ForceCategories(Tail(cats))

fetch_sample_metadata(output, context, samples, all_columns, resolve_ambiguities, tagged, force_categories) ==
    "redbiom fetch sample-metadata --output " \o output
        \o (IF TruthyStr(context) THEN " --context " \o context[1] ELSE "")
        \o Opt(all_columns, " --all-columns")
        \o Opt(resolve_ambiguities, " --resolve-ambiguities")
        \o Opt(tagged, " --tagged")
        \o (IF TruthyList(force_categories) THEN ForceCategories(force_categories[1]) ELSE "")
        \o (IF TruthyList(samples) THEN " " \o join(" ", samples[1]) ELSE "")

\* fetch_features with the features appended before the optional flags.
fetch_features_positionals_first(output, context, features, exact, md5, resolve_ambiguities, fetch_taxonomy) ==
    "redbiom fetch features --context " \o context \o " --output " \o output
        \o " " \o join(" ", features)
        \o Opt(exact, " --exact")
        \o Opt(md5, " --md5")
        \o Opt(resolve_ambiguities # "none", " --resolve-ambiguities " \o resolve_ambiguities)
        \o Opt(fetch_taxonomy, " --fetch-taxonomy")

fetch_features(output, context, features, exact, md5, resolve_ambiguities, fetch_taxonomy) ==
    "redbiom fetch features --context " \o context \o " --output " \o output
        \o Opt(exact, " --exact")
        \o Opt(md5, " --md5")
        \o Opt(resolve_ambiguities # "none", " --resolve-ambiguities " \o resolve_ambiguities)
        \o Opt(fetch_taxonomy, " --fetch-taxonomy")
        \o " " \o join(" ", features)

\* fetch_samples with --output written before --context.
fetch_samples_output_first(output, context, samples, md5, resolve_ambiguities, fetch_taxonomy) ==
    "redbiom fetch samples --output " \o output \o " --context " \o context
        \o Opt(md5, " --md5")
        \o Opt(resolve_ambiguities # "none", " --resolve-ambiguities " \o resolve_ambiguities)
        \o Opt(fetch_taxonomy, " --fetch-taxonomy")
        \o " " \o join(" ", samples)

fetch_samples(output, context, samples, md5, resolve_ambiguities, fetch_taxonomy) ==
    "redbiom fetch samples --context " \o context \o " --output " \o output
        \o Opt(md5, " --md5")
        \o Opt(resolve_ambiguities # "none", " --resolve-ambiguities " \o resolve_ambiguities)
        \o Opt(fetch_taxonomy, " --fetch-taxonomy")
        \o " " \o join(" ", samples)

fetch_qiita_study(study_id, context, output_basename, resolve_ambiguities, fetch_taxonomy, remove_blanks, md5) ==
    "redbiom fetch qiita-study --study-id " \o str(study_id)
        \o " --context " \o context
        \o " --output-basename " \o output_basename
        \o Opt(resolve_ambiguities # "none", " --resolve-ambiguities " \o resolve_ambiguities)
        \o Opt(fetch_taxonomy, " --fetch-taxonomy")
        \o Opt(remove_blanks, " --remove-blanks")
        \o Opt(md5, " --md5")

fetch_samples_contained(context, unambiguous) ==
    "redbiom fetch samples-contained"
        \o (IF TruthyStr(context) THEN " --context " \o context[1] ELSE "")
        \o Opt(unambiguous, " --unambiguous")

fetch_features_contained(context) ==
    "redbiom fetch features-contained"
        \o (IF TruthyStr(context) THEN " --context " \o context[1] ELSE "")

summarize_contexts == "redbiom summarize contexts"

summarize_metadata_category(category, counter, descending, dump) ==
    "redbiom summarize metadata-category --category " \o category
        \o Opt(counter, " --counter")
        \o Opt(descending, " --descending")
        \o Opt(dump, " --dump")

summarize_metadata(categories, descending) ==
    "redbiom summarize metadata"
        \o Opt(descending, " --descending")
        \o (IF TruthyList(categories) THEN " " \o join(" ", categories[1]) ELSE "")

summarize_features(category, context, features, exact) ==
    "redbiom summarize features --category " \o category \o " --context " \o context
        \o Opt(exact, " --exact")
        \o " " \o join(" ", features)

summarize_samples(category, samples) ==
    "redbiom summarize samples --category " \o category
        \o " " \o join(" ", samples)

summarize_taxonomy(context, features, normalize_ranks) ==
    "redbiom summarize taxonomy --context " \o context
        \o " --normalize-ranks " \o normalize_ranks
        \o " " \o join(" ", features)

select_samples_from_metadata(context, query, samples) ==
    "redbiom select samples-from-metadata --context " \o context \o " \"" \o query \o "\""
        \o " " \o join(" ", samples)

select_features_from_samples(context, samples, exact) ==
    "redbiom select features-from-samples --context " \o context
        \o Opt(exact, " --exact")
        \o " " \o join(" ", samples)

(***************************************************************************)
(* Arguments the builders are called with.  run_agent passes whatever the  *)
(* language model put into the tool call, so empty and blank-holding       *)
(* strings, counts below 1 and undeclared choices arrive as well.          *)
(***************************************************************************)
SeqsUpTo(S, n) == UNION {[1..k -> S] : k \in 0..n}

Optional(S) == {NoneArg} \cup {Some(v) : v \in S}

Contexts == {"ctxA", "", "my ctx"}

Outputs == {"out.biom", "out"}

Basenames == {"study", "study.biom"}

Ids == {"s1", "s2"}

IdLists == SeqsUpTo(Ids, MaxList)

Categories == {"age", "sex"}

CategoryLists == SeqsUpTo(Categories, MaxList)

Queries == {"antibiotics", "where age > 30"}

Taxa == {"Bacteroides", "g__Bacteroides fragilis"}

MinCounts == {-1, 0, 1, 12}

StudyIds == {0, 10317}

ResolveValues == {"none", "merge", "most-reads", "bogus"}

Ranks == {"kpcofgs", "kp"}

\* `command = function_to_call(**function_args)` in run_agent.
Built(name, a, cmd) ==
    /\ pc = "idle"
    /\ origin' = name
    /\ args' = a
    /\ command' = cmd
    /\ pc' = "built"
    /\ UNCHANGED <<result, issues, suggestions, ui>>
    /\ UNCHANGED <<proc, wizard, agent, chat, threads>>

Build_search_features ==
    \E context \in Contexts, features \in IdLists, exact \in BOOLEAN, min_count \in MinCounts :
        Built("search_features",
              [builder |-> "search_features", context |-> context, features |-> features, exact |-> exact, min_count |-> min_count],
              search_features(context, features, exact, min_count))

Build_search_samples ==
    \E context \in Contexts, samples \in IdLists, exact \in BOOLEAN, min_count \in MinCounts :
        Built("search_samples",
              [builder |-> "search_samples", context |-> context, samples |-> samples, exact |-> exact, min_count |-> min_count],
              search_samples(context, samples, exact, min_count))

Build_search_metadata ==
    \E query \in Queries, categories \in BOOLEAN :
        Built("search_metadata",
              [builder |-> "search_metadata", query |-> query, categories |-> categories],
              search_metadata(query, categories))

Build_search_taxon ==
    \E context \in Contexts, taxon \in Taxa :
        Built("search_taxon",
              [builder |-> "search_taxon", context |-> context, taxon |-> taxon],
              search_taxon(context, taxon))

Build_fetch_sample_metadata ==
    \E output \in Outputs,
       context \in Optional(Contexts),
       samples \in Optional(IdLists),
       all_columns \in BOOLEAN,
       resolve_ambiguities \in BOOLEAN,
       tagged \in BOOLEAN,
       force_categories \in Optional(CategoryLists) :
        Built("fetch_sample_metadata",
              [builder |-> "fetch_sample_metadata", output |-> output, context |-> context, samples |-> samples, all_columns |-> all_columns, resolve_ambiguities |-> resolve_ambiguities, tagged |-> tagged, force_categories |-> force_categories],
              fetch_sample_metadata(output, context, samples, all_columns, resolve_ambiguities, tagged, force_categories))

Build_fetch_features ==
    \E output \in Outputs,
       context \in Contexts,
       features \in IdLists,
       exact \in BOOLEAN,
       md5 \in BOOLEAN,
       resolve_ambiguities \in ResolveValues,
       fetch_taxonomy \in BOOLEAN :
        Built("fetch_features",
              [builder |-> "fetch_features", output |-> output, context |-> context, features |-> features, exact |-> exact, md5 |-> md5, resolve_ambiguities |-> resolve_ambiguities, fetch_taxonomy |-> fetch_taxonomy],
              fetch_features(output, context, features, exact, md5, resolve_ambiguities, fetch_taxonomy))

Build_fetch_samples ==
    \E output \in Outputs,
       context \in Contexts,
       samples \in IdLists,
       md5 \in BOOLEAN,
       resolve_ambiguities \in ResolveValues,
       fetch_taxonomy \in BOOLEAN :
        Built("fetch_samples",
              [builder |-> "fetch_samples", output |-> output, context |-> context, samples |-> samples, md5 |-> md5, resolve_ambiguities |-> resolve_ambiguities, fetch_taxonomy |-> fetch_taxonomy],
              fetch_samples(output, context, samples, md5, resolve_ambiguities, fetch_taxonomy))

Build_fetch_qiita_study ==
    \E study_id \in StudyIds,
       context \in Contexts,
       output_basename \in Basenames,
       resolve_ambiguities \in ResolveValues,
       fetch_taxonomy \in BOOLEAN,
       remove_blanks \in BOOLEAN,
       md5 \in BOOLEAN :
        Built("fetch_qiita_study",
              [builder |-> "fetch_qiita_study", study_id |-> study_id, context |-> context, output_basename |-> output_basename, resolve_ambiguities |-> resolve_ambiguities, fetch_taxonomy |-> fetch_taxonomy, remove_blanks |-> remove_blanks, md5 |-> md5],
              fetch_qiita_study(study_id, context, output_basename, resolve_ambiguities, fetch_taxonomy, remove_blanks, md5))

Build_fetch_samples_contained ==
    \E context \in Optional(Contexts), unambiguous \in BOOLEAN :
        Built("fetch_samples_contained",
              [builder |-> "fetch_samples_contained", context |-> context, unambiguous |-> unambiguous],
              fetch_samples_contained(context, unambiguous))

Build_fetch_features_contained ==
    \E context \in Optional(Contexts) :
        Built("fetch_features_contained",
              [builder |-> "fetch_features_contained", context |-> context],
              fetch_features_contained(context))

Build_summarize_contexts ==
    Built("summarize_contexts", [builder |-> "summarize_contexts"], summarize_contexts)

Build_summarize_metadata_category ==
    \E category \in Categories, counter \in BOOLEAN, descending \in BOOLEAN, dump \in BOOLEAN :
        Built("summarize_metadata_category",
              [builder |-> "summarize_metadata_category", category |-> category, counter |-> counter, descending |-> descending, dump |-> dump],
              summarize_metadata_category(category, counter, descending, dump))

Build_summarize_metadata ==
    \E categories \in Optional(CategoryLists), descending \in BOOLEAN :
        Built("summarize_metadata",
              [builder |-> "summarize_metadata", categories |-> categories, descending |-> descending],
              summarize_metadata(categories, descending))

Build_summarize_features ==
    \E category \in Categories, context \in Contexts, features \in IdLists, exact \in BOOLEAN :
        Built("summarize_features",
              [builder |-> "summarize_features", category |-> category, context |-> context, features |-> features, exact |-> exact],
              summarize_features(category, context, features, exact))

Build_summarize_samples ==
    \E category \in Categories, samples \in IdLists :
        Built("summarize_samples",
              [builder |-> "summarize_samples", category |-> category, samples |-> samples],
              summarize_samples(category, samples))

Build_summarize_taxonomy ==
    \E context \in Contexts, features \in IdLists, normalize_ranks \in Ranks :
        Built("summarize_taxonomy",
              [builder |-> "summarize_taxonomy", context |-> context, features |-> features, normalize_ranks |-> normalize_ranks],
              summarize_taxonomy(context, features, normalize_ranks))

Build_select_samples_from_metadata ==
    \E context \in Contexts, query \in Queries, samples \in IdLists :
        Built("select_samples_from_metadata",
              [builder |-> "select_samples_from_metadata", context |-> context, query |-> query, samples |-> samples],
              select_samples_from_metadata(context, query, samples))

Build_select_features_from_samples ==
    \E context \in Contexts, samples \in IdLists, exact \in BOOLEAN :
        Built("select_features_from_samples",
              [builder |-> "select_features_from_samples", context |-> context, samples |-> samples, exact |-> exact],
              select_features_from_samples(context, samples, exact))

Build ==
    \/ Build_search_features
    \/ Build_search_samples
    \/ Build_search_metadata
    \/ Build_search_taxon
    \/ Build_fetch_sample_metadata
    \/ Build_fetch_features
    \/ Build_fetch_samples
    \/ Build_fetch_qiita_study
    \/ Build_fetch_samples_contained
    \/ Build_fetch_features_contained
    \/ Build_summarize_contexts
    \/ Build_summarize_metadata_category
    \/ Build_summarize_metadata
    \/ Build_summarize_features
    \/ Build_summarize_samples
    \/ Build_summarize_taxonomy
    \/ Build_select_samples_from_metadata
    \/ Build_select_features_from_samples

\* The built command is handed to the validator.
Submit ==
    /\ pc = "built"
    /\ pc' = "called"
    /\ UNCHANGED <<command, origin, args, result, issues, suggestions, ui>>
    /\ UNCHANGED <<proc, wizard, agent, chat, threads>>

\* The report of a built command has been read; the next tool call follows.
Discard ==
    /\ pc = "returned"
    /\ origin # "model"
    /\ pc' = "idle"
    /\ command' = ""
    /\ origin' = "none"
    /\ args' = NoArgs
    /\ result' = Pending
    /\ issues' = <<>>
    /\ suggestions' = <<>>
    /\ ui' = "none"
    /\ UNCHANGED <<proc, wizard, agent, chat, threads>>

NextRoundTrip == Build \/ Submit \/ Validate \/ Discard

SpecRoundTrip == Init /\ [][NextRoundTrip]_vars

(***************************************************************************)
(* Properties of the validator.                                            *)
(***************************************************************************)
\* The call of validate_redbiom_command has ended.
CallEnded == pc \in {"returned", "shown"}

\* The stripped command and its tokens, as the function computes them.
Stripped == strip(command)

Parts == split(Stripped)

\* The call returned a report (a tuple), as its docstring says.
HasReport == result.tag = "tuple"

\* The report holds the issue msg.
Reports(msg) == HasReport /\ InList(msg, result.issues)

HasDangerousPattern(s) == \E i \in 1..Len(dangerous_patterns) : contains(s, dangerous_patterns[i])

IsUnsafeShellIssue(msg) == contains(msg, "nsafe shell construct")

\* C1: a command whose raw string contains ; && || > or < gets a report with
\* an "unsafe shell construct" issue and verdict invalid, whatever the other
\* checks found and also when an earlier check failed.
C1_DangerousPatternAlwaysReported ==
    (CallEnded /\ HasDangerousPattern(command))
        => /\ HasReport
           /\ ~result.is_valid
           /\ \E i \in 1..Len(result.issues) : IsUnsafeShellIssue(result.issues[i])

\* C2: for every input string the call returns a complete report (verdict,
\* issue list, suggestion list), and the caller's unpacking of it into
\* (is_valid, issues, suggestions) never fails.
C2_AlwaysReturnsReport ==
    /\ CallEnded => /\ HasReport
                 /\ result.is_valid \in BOOLEAN
                 /\ Len(result.issues) = Len(issues)
                 /\ Len(result.suggestions) = Len(suggestions)
    /\ ui # "TypeError"

\* A value the builder's preconditions accept: not empty, no whitespace.
SaneStr(v) == v # "" /\ \A i \in 1..Len(v) : CharAt(v, i) \notin Whitespace

OptionalContextBuilders ==
    {"fetch_sample_metadata", "fetch_samples_contained", "fetch_features_contained"}

\* The parameter set is one the builder is specified to accept.
ArgsAccepted ==
    LET d == DOMAIN args
        b == args.builder
    IN  /\ "context" \in d =>
              IF b \in OptionalContextBuilders
              THEN args.context = NoneArg \/ SaneStr(args.context[1])
              ELSE SaneStr(args.context)
        /\ "min_count" \in d => args.min_count >= 1
        /\ ("resolve_ambiguities" \in d /\ b # "fetch_sample_metadata")
              => args.resolve_ambiguities \in {"none", "merge", "most-reads"}
        /\ "features" \in d => Len(args.features) > 0
        /\ ("samples" \in d /\ b # "fetch_sample_metadata") => Len(args.samples) > 0

\* C3: round trip: the command string a builder returns for a parameter set
\* it accepts, passed to the validator, yields a report with verdict valid.
C3_BuiltCommandsValidate ==
    (CallEnded /\ origin \notin {"none", "model"} /\ ArgsAccepted)
        => (HasReport /\ result.is_valid)

\* The flag occurs as a whole token after the action and a token follows it.
FlagWithValue(flag, command_parts) ==
    \E k \in 4..(Len(command_parts) - 1) : command_parts[k] = flag

\* The message names the flag itself, not a longer flag that contains it.
NamesFlag(msg, flag) == contains(msg, flag \o "'") \/ contains(msg, flag \o " ")

CountWhere(list, P(_)) == Cardinality({i \in 1..Len(list) : P(list[i])})

\* The command addresses a (family, action) pair of the validator's table.
AddressesKnownPair ==
    /\ Len(Parts) >= 3
    /\ Parts[1] = "redbiom"
    /\ HasKey(required_subcommands, Parts[2])
    /\ HasKey(Get(required_subcommands, Parts[2]), Parts[3])

\* C4: for every (family, action) and every required flag of it, a command in
\* which the flag does not occur as a whole token followed by a value yields
\* exactly one issue and one suggestion naming that flag (a token that only
\* contains the flag's text does not count); `redbiom search features
\* feature1` yields verdict invalid with exactly one issue.
C4_MissingFlagOneIssue ==
    /\ (CallEnded /\ AddressesKnownPair)
        => LET required_params == Get(Get(required_subcommands, Parts[2]), Parts[3])
           IN  \A k \in 1..Len(required_params) :
                  ~FlagWithValue(required_params[k], Parts)
                      => /\ HasReport
                         /\ CountWhere(result.issues,
                                LAMBDA m : NamesFlag(m, required_params[k])) = 1
                         /\ CountWhere(result.suggestions,
                                LAMBDA m : NamesFlag(m, required_params[k])) = 1
    /\ (CallEnded /\ command = "redbiom search features feature1")
        => (HasReport /\ ~result.is_valid /\ Len(result.issues) = 1)

\* One of the program-name, family and action checks fails.
EarlyCheckFails ==
    \/ ProgramNameFails(Stripped)
    \/ Len(Parts) < 2
    \/ ~HasKey(required_subcommands, Parts[2])
    \/ Len(Parts) < 3
    \/ ~HasKey(Get(required_subcommands, Parts[2]), Parts[3])

\* What the checks after the action check find in the command.
LaterFindings ==
    Plus(OutputFindings(Stripped, Parts),
    Plus(StudyIdFindings(Stripped, Parts),
    Plus(CategoryFindings(Stripped, Parts),
         ContextFindings(Stripped, Parts))))

\* C5: findings accumulate: the report holds one issue per failed check, and
\* a failure of the program-name, family or action check does not suppress
\* the findings of the later checks.
C5_EarlyFailureKeepsLaterFindings ==
    (CallEnded /\ EarlyCheckFails)
        => \A i \in 1..Len(LaterFindings.issues) : Reports(LaterFindings.issues[i])

\* C6: the program-name issue is reported exactly when the first
\* whitespace-delimited token is not `redbiom` (redbiomx and redbiom-admin
\* are not `redbiom`).
C6_ProgramNameIsFirstToken ==
    CallEnded
        => ((Len(Parts) = 0 \/ Parts[1] # "redbiom")
                <=> Reports("Command doesn't start with 'redbiom'"))

GrammarFamilies == {"search", "fetch", "summarize", "select"}

\* C7: every command whose second token is not one of search, fetch,
\* summarize, select gets an "unknown family" issue with a suggestion that
\* lists the valid families; admin, stat, tree, context, feature-table are
\* not accepted.
C7_OnlyGrammarFamiliesAccepted ==
    (CallEnded /\ Len(Parts) >= 2 /\ Parts[1] = "redbiom" /\ Parts[2] \notin GrammarFamilies)
        => /\ HasReport
           /\ \E i \in 1..Len(result.issues) :
                 /\ result.issues[i] = "Unknown subcommand: '" \o Parts[2] \o "'"
                 /\ \A f \in GrammarFamilies : contains(result.suggestions[i], f)

IsActionIssue(msg, family) ==
    contains(msg, "ction") /\ contains(msg, "'" \o family \o "'")

\* C8: a known family followed by a token that is not one of its actions, or
\* by nothing, gets exactly one "unknown action" issue with a suggestion that
\* lists the family's valid actions, and verdict invalid.
C8_UnknownActionReported ==
    (/\ CallEnded
     /\ Len(Parts) >= 2
     /\ Parts[1] = "redbiom"
     /\ HasKey(required_subcommands, Parts[2])
     /\ (Len(Parts) < 3 \/ ~HasKey(Get(required_subcommands, Parts[2]), Parts[3])))
        => /\ HasReport
           /\ ~result.is_valid
           /\ CountWhere(result.issues, LAMBDA m : IsActionIssue(m, Parts[2])) = 1
           /\ \E i \in 1..Len(result.issues) :
                 /\ IsActionIssue(result.issues[i], Parts[2])
                 /\ LET valid_actions == keys(Get(required_subcommands, Parts[2]))
                    IN  \E k \in 1..Len(valid_actions) :
                           contains(result.suggestions[i], valid_actions[k])

(***************************************************************************)
(* The grammar table of the specification (section 6): family, action and  *)
(* the set of required flags.                                              *)
(***************************************************************************)
SpecGrammarTable ==
    { <<"search", "features", {"--context"}>>,
      <<"search", "samples", {"--context"}>>,
      <<"search", "metadata", {}>>,
      <<"search", "taxon", {"--context"}>>,
      <<"fetch", "samples-contained", {}>>,
      <<"fetch", "features-contained", {}>>,
      <<"fetch", "sample-metadata", {"--output"}>>,
      <<"fetch", "features", {"--context", "--output"}>>,
      <<"fetch", "samples", {"--context", "--output"}>>,
      <<"fetch", "qiita-study", {"--study-id", "--context", "--output-basename"}>>,
      <<"summarize", "contexts", {}>>,
      <<"summarize", "metadata-category", {"--category"}>>,
      <<"summarize", "metadata", {}>>,
      <<"summarize", "table", {"--category", "--context", "--table"}>>,
      <<"summarize", "features", {"--category", "--context"}>>,
      <<"summarize", "samples", {"--category"}>>,
      <<"summarize", "taxonomy", {"--context"}>>,
      <<"select", "samples-from-metadata", {"--context", "query"}>>,
      <<"select", "features-from-samples", {"--context"}>> }

\* The same table as the code holds it: the positional query is no required
\* flag, and fetch tags-contained is one more pair.
AmendedGrammarTable ==
    (SpecGrammarTable \ {<<"select", "samples-from-metadata", {"--context", "query"}>>})
    \cup { <<"select", "samples-from-metadata", {"--context"}>>,
           <<"fetch", "tags-contained", {"--context"}>> }

FlagNames == UNION {e[3] : e \in SpecGrammarTable}

UnknownActionIssue(subcommand, action) ==
    "Unknown action '" \o action \o "' for subcommand '" \o subcommand \o "'"

MissingParamIssue(param, subcommand, action) ==
    "Missing required parameter '" \o param \o "' for '" \o subcommand \o " " \o action \o "'"

\* The validator treats the pairs and required flags of table T, and no other
\* pair, as its grammar: for a command naming a known family and an action,
\* the action is unknown exactly when the pair is not in T, and a flag's
\* absence from the command is an issue exactly when T requires the flag.
BehavesAsTable(T) ==
    (CallEnded /\ ~ProgramNameFails(Stripped) /\ Len(Parts) >= 3 /\ Parts[2] \in GrammarFamilies)
        => LET entries == {e \in T : e[1] = Parts[2] /\ e[2] = Parts[3]}
           IN  /\ (entries = {}) <=> InList(UnknownActionIssue(Parts[2], Parts[3]), issues)
               /\ \A e \in entries : \A f \in FlagNames :
                     InList(MissingParamIssue(f, Parts[2], Parts[3]), issues)
                         <=> (f \in e[3] /\ ~contains(Stripped, f))

\* C9 as stated: the validator's table of (family, action) pairs and required
\* flags equals the specified grammar table, select samples-from-metadata
\* requiring --context and a query, and no pair outside the table is
\* accepted.
C9_TableEqualsSpecTable == BehavesAsTable(SpecGrammarTable)

\* C9 amended: the validator's table holds every pair of the specified table
\* with exactly the listed required flags, except that select
\* samples-from-metadata requires only --context, and it holds one more pair,
\* fetch tags-contained requiring --context; no other pair is accepted.
C9_TableAsBuilt == BehavesAsTable(AmendedGrammarTable)

\* fetch qiita-study without any flag: its three required flags are reported.
C9_Witness ==
    /\ CallEnded
    /\ Parts = <<"redbiom", "fetch", "qiita-study">>
    /\ issues = << MissingParamIssue("--context", "fetch", "qiita-study"),
                   MissingParamIssue("--study-id", "fetch", "qiita-study"),
                   MissingParamIssue("--output-basename", "fetch", "qiita-study") >>

RECURSIVE CountChar(_, _)
CountChar(s, ch) ==
    IF Len(s) = 0 THEN 0
    ELSE (IF CharAt(s, 1) = ch THEN 1 ELSE 0) + CountChar(Tail(s), ch)

UnbalancedQuotes(s) == CountChar(s, "\"") % 2 = 1

IsTokenizationIssue(msg) == contains(msg, "quot")

StudyIdIssue == "Study ID should be a number"

\* Token k of the command is --study-id and no all-digit token follows it.
StudyIdWithoutNumber(k) ==
    /\ Parts[k] = "--study-id"
    /\ (k = Len(Parts) \/ ~isdigit(Parts[k + 1]))

\* C11: whenever the token --study-id occurs in a command and the token after
\* it is absent or not all digits, the validator raises the study-id issue.
\* The claim is read in the way kindest to the code: the issue need only be
\* in the list the call built, and only commands that pass the program-name,
\* family and action checks are looked at.
C11_StudyIdAlwaysChecked ==
    (CallEnded /\ ~EarlyCheckFails) =>
        \A k \in 1..Len(Parts) : StudyIdWithoutNumber(k) => InList(StudyIdIssue, issues)

\* Every flag named in required_subcommands.
RequiredParams ==
    UNION {UNION {{required_subcommands[i][2][j][2][k] : k \in 1..Len(required_subcommands[i][2][j][2])} :
                    j \in 1..Len(required_subcommands[i][2])} :
            i \in 1..Len(required_subcommands)}

\* The suggestion the code appends together with an issue.
Pairs(issue, suggestion) ==
    \/ /\ issue = "Command doesn't start with 'redbiom'"
       /\ suggestion = "Add 'redbiom' at the beginning"
    \/ /\ issue = "Command appears incomplete - missing subcommand"
       /\ startswith(suggestion, "Add a subcommand like: ")
    \/ /\ startswith(issue, "Unknown subcommand: ")
       /\ startswith(suggestion, "Use one of: ")
    \/ /\ startswith(issue, "Missing action for ")
       /\ startswith(suggestion, "Add an action like: ")
    \/ /\ startswith(issue, "Unknown action ")
       /\ startswith(suggestion, "Use one of: ")
    \/ \E param \in RequiredParams :
          /\ startswith(issue, "Missing required parameter '" \o param \o "'")
          /\ suggestion = "Add " \o param \o " parameter with appropriate value"
    \/ /\ issue = "Output file specified but no valid file extension found"
       /\ startswith(suggestion, "Specify output file with proper extension: ")
    \/ /\ issue = StudyIdIssue
       /\ startswith(suggestion, "Use a numeric study ID")
    \/ /\ issue = "Category parameter cannot be empty"
       /\ suggestion = "Provide a valid metadata category name"
    \/ /\ issue = "--context flag found but no context name provided"
       /\ suggestion = "Add a context name after --context flag"
    \/ /\ issue = "Context parameter appears to be missing or invalid"
       /\ suggestion = "Provide a valid context name after --context"

PairedLists(i, s) ==
    /\ Len(i) = Len(s)
    /\ \A k \in 1..Len(i) : Pairs(i[k], s[k])

\* C12: in every report the validator returns, and in the two lists of every
\* call that ended, the suggestions are as many as the issues and the k-th
\* suggestion is the one that belongs to the k-th issue.
C12_SuggestionPerIssue ==
    CallEnded =>
        /\ PairedLists(issues, suggestions)
        /\ HasReport => PairedLists(result.issues, result.suggestions)

\* A report was returned and shown, one issue with its one suggestion.
C12_Witness ==
    /\ pc = "shown"
    /\ HasReport
    /\ Len(result.issues) = 1
    /\ Len(result.suggestions) = 1
    /\ Pairs(result.issues[1], result.suggestions[1])

(***************************************************************************)
(* The builders on their own, and the runner's view of a built command.    *)
(* execute_command hands the string to subprocess.run(shell=True), so the  *)
(* shell splits it into words: blanks separate words, a pair of double or  *)
(* single quotes keeps its content in one word, and an unquoted            *)
(* | & ; ( ) < > is an operator.  A word is <<"word", text>>, an operator  *)
(* <<"op", char>>.  Backslashes and expansions are not modelled; no string *)
(* of the model holds one.                                                 *)
(***************************************************************************)
ShellBlanks == {" ", "\t", "\n"}

ShellOperatorChars == {"|", "&", ";", "(", ")", "<", ">"}

ShellQuotes == {"\"", "'"}

\* Position of the first character of s at or after i that is in S,
\* Len(s) + 1 when there is none.
NextIn(s, i, S) ==
    LET hits == {j \in i..Len(s) : CharAt(s, j) \in S}
    IN  IF hits = {} THEN Len(s) + 1
        ELSE CHOOSE j \in hits : \A k \in hits : j <= k

\* The scan from position i: cur is the word read so far, inword says a word
\* is open, quote is the open quote character or "".
RECURSIVE ShellScan(_, _, _, _, _, _)
ShellScan(s, i, cur, inword, quote, acc) ==
    IF i > Len(s) THEN (IF inword THEN Append(acc, <<"word", cur>>) ELSE acc)
    ELSE IF quote # ""
    THEN LET j == NextIn(s, i, {quote})
         IN  IF j > Len(s)
             THEN Append(acc, <<"word", cur \o SubSeq(s, i, Len(s))>>)
             ELSE ShellScan(s, j + 1, cur \o SubSeq(s, i, j - 1), TRUE, "", acc)
    ELSE LET j == NextIn(s, i, ShellBlanks \cup ShellOperatorChars \cup ShellQuotes)
             word == cur \o SubSeq(s, i, j - 1)
             open == inword \/ j > i
             flush == IF open THEN Append(acc, <<"word", word>>) ELSE acc
         IN  IF j > Len(s) THEN flush
             ELSE IF CharAt(s, j) \in ShellQuotes
             THEN ShellScan(s, j + 1, word, TRUE, CharAt(s, j), acc)
             ELSE IF CharAt(s, j) \in ShellBlanks
             THEN ShellScan(s, j + 1, "", FALSE, "", flush)
             ELSE ShellScan(s, j + 1, "", FALSE, "", Append(flush, <<"op", CharAt(s, j)>>))

ShellWords(s) == ShellScan(s, 1, "", FALSE, "", <<>>)

\* Step 1 of the workflow wizard builds its command in place:
\* search_query = f"qiita_study_id:{study_id}" and the f-string of line 157.
query_samples_command(study_id, context, sample_output) ==
    "redbiom search metadata \"" \o "qiita_study_id:" \o study_id \o "\""
        \o " --context " \o context \o " > " \o sample_output

\* The wizard's text inputs.
WizardStudyIds == {"10317", "2136"}

SampleOutputs == {"samples.txt", "ids.txt"}

Build_query_samples ==
    \E study_id \in WizardStudyIds, sample_output \in SampleOutputs :
        Built("query_samples",
              [builder |-> "query_samples", study_id |-> study_id, context |-> WizardContext, sample_output |-> sample_output],
              query_samples_command(study_id, WizardContext, sample_output))

\* The command has been recorded; the loop goes on to the next tool call.
NextToolCall ==
    /\ pc = "built"
    /\ pc' = "idle"
    /\ command' = ""
    /\ origin' = "none"
    /\ args' = NoArgs
    /\ UNCHANGED <<result, issues, suggestions, ui>>
    /\ UNCHANGED <<proc, wizard, agent, chat, threads>>

NextBuilder == Build \/ Build_query_samples \/ NextToolCall

SpecBuilder == Init /\ [][NextBuilder]_vars

(***************************************************************************)
(* Properties of the builders.                                             *)
(***************************************************************************)
\* A command string has been returned.
CommandBuilt == pc = "built"

Words == ShellWords(command)

WordTexts == LET ws == Words IN [i \in 1..Len(ws) |-> ws[i][2]]

\* No shell operator is among the words of the command.
OnlyWords == LET ws == Words IN \A i \in 1..Len(ws) : ws[i][1] = "word"

IsFlag(text) == startswith(text, "--")

Op(family, action, required, optional, valued) ==
    [family |-> family, action |-> action, required |-> required, optional |-> optional, valued |-> valued]

\* What each operation declares: family, action, the required flags in the
\* order of the grammar table, the optional flags in the order of the
\* parameter list, and the flags that take a value.
Declared ==
    [ search_features |->
        Op("search", "features", <<"--context">>, <<"--exact", "--min-count">>, {"--context", "--min-count"}),
      search_samples |->
        Op("search", "samples", <<"--context">>, <<"--exact", "--min-count">>, {"--context", "--min-count"}),
      search_metadata |->
        Op("search", "metadata", <<>>, <<"--categories">>, {}),
      search_taxon |->
        Op("search", "taxon", <<"--context">>, <<>>, {"--context"}),
      fetch_sample_metadata |->
        Op("fetch", "sample-metadata", <<"--output">>,
           <<"--context", "--all-columns", "--resolve-ambiguities", "--tagged", "--force-category">>,
           {"--output", "--context", "--force-category"}),
      fetch_features |->
        Op("fetch", "features", <<"--context", "--output">>,
           <<"--exact", "--md5", "--resolve-ambiguities", "--fetch-taxonomy">>,
           {"--context", "--output", "--resolve-ambiguities"}),
      fetch_samples |->
        Op("fetch", "samples", <<"--context", "--output">>,
           <<"--md5", "--resolve-ambiguities", "--fetch-taxonomy">>,
           {"--context", "--output", "--resolve-ambiguities"}),
      fetch_qiita_study |->
        Op("fetch", "qiita-study", <<"--study-id", "--context", "--output-basename">>,
           <<"--resolve-ambiguities", "--fetch-taxonomy", "--remove-blanks", "--md5">>,
           {"--study-id", "--context", "--output-basename", "--resolve-ambiguities"}),
      fetch_samples_contained |->
        Op("fetch", "samples-contained", <<>>, <<"--context", "--unambiguous">>, {"--context"}),
      fetch_features_contained |->
        Op("fetch", "features-contained", <<>>, <<"--context">>, {"--context"}),
      summarize_contexts |->
        Op("summarize", "contexts", <<>>, <<>>, {}),
      summarize_metadata_category |->
        Op("summarize", "metadata-category", <<"--category">>, <<"--counter", "--descending", "--dump">>, {"--category"}),
      summarize_metadata |->
        Op("summarize", "metadata", <<>>, <<"--descending">>, {}),
      summarize_features |->
        Op("summarize", "features", <<"--category", "--context">>, <<"--exact">>, {"--category", "--context"}),
      summarize_samples |->
        Op("summarize", "samples", <<"--category">>, <<>>, {"--category"}),
      summarize_taxonomy |->
        Op("summarize", "taxonomy", <<"--context">>, <<"--normalize-ranks">>, {"--context", "--normalize-ranks"}),
      select_samples_from_metadata |->
        Op("select", "samples-from-metadata", <<"--context">>, <<>>, {"--context"}),
      select_features_from_samples |->
        Op("select", "features-from-samples", <<"--context">>, <<"--exact">>, {"--context"}),
      query_samples |->
        Op("search", "metadata", <<>>, <<"--categories">>, {}) ]

AgentBuilders == DOMAIN Declared \ {"query_samples"}

\* The list an Optional[List[str]] argument stands for.
ListOf(o) == IF o = NoneArg THEN <<>> ELSE o[1]

\* The positional arguments the caller gave, in the caller's order.
Positionals(a) ==
    LET b == a.builder
    IN  IF b \in {"search_features", "fetch_features", "summarize_features", "summarize_taxonomy"}
        THEN a.features
        ELSE IF b \in {"search_samples", "fetch_samples", "summarize_samples", "select_features_from_samples"}
        THEN a.samples
        ELSE IF b = "search_metadata" THEN <<a.query>>
        ELSE IF b = "search_taxon" THEN <<a.taxon>>
        ELSE IF b = "fetch_sample_metadata" THEN ListOf(a.samples)
        ELSE IF b = "summarize_metadata" THEN ListOf(a.categories)
        ELSE IF b = "select_samples_from_metadata" THEN <<a.query>> \o a.samples
        ELSE IF b = "query_samples" THEN <<"qiita_study_id:" \o a.study_id>>
        ELSE <<>>

\* Position of flag in the list flags, 0 when it is not there.
FlagRank(flag, flags) == index(flags, flag)

\* The words of the command are: redbiom, family, action, the required flags
\* in declared order, optional flags in declared order, and last the
\* positional arguments as the caller gave them.
TokenOrderHolds ==
    LET d == Declared[origin]
        w == WordTexts
        n == Len(w)
        pos == Positionals(args)
        np == Len(pos)
        flagpart == SubSeq(w, 4, n - np)
        flags == SelectSeq(flagpart, IsFlag)
        nr == Len(d.required)
    IN  /\ OnlyWords
        /\ n >= 3 + np
        /\ SubSeq(w, 1, 3) = <<"redbiom", d.family, d.action>>
        /\ SubSeq(w, n - np + 1, n) = pos
        /\ \A i \in 1..np : ~IsFlag(pos[i])
        /\ Len(flags) >= nr
        /\ SubSeq(flags, 1, nr) = d.required
        /\ \A i \in (nr + 1)..Len(flags) : FlagRank(flags[i], d.optional) # 0
        /\ \A i \in (nr + 1)..(Len(flags) - 1) :
              FlagRank(flags[i], d.optional) <= FlagRank(flags[i + 1], d.optional)
        /\ \A i \in 1..Len(flagpart) :
              ~IsFlag(flagpart[i]) => (i > 1 /\ flagpart[i - 1] \in d.valued)

\* C13 (as stated): for every builder, the wizard's command builder
\* included, and every accepted parameter set the tokens of the built
\* command are in this order: redbiom, family, action, required flags,
\* supplied optional flags, positional arguments; no flag token appears
\* after a positional argument.
C13_EveryBuilderTokenOrder ==
    (CommandBuilt /\ ArgsAccepted) => TokenOrderHolds

\* C13 (amended): the token order holds for every builder of the agent's
\* registry and every accepted parameter set.
C13_AgentBuilderTokenOrder ==
    (CommandBuilt /\ origin \in AgentBuilders /\ ArgsAccepted) => TokenOrderHolds

\* A command with a required flag, optional flags, a quoted query and
\* positional arguments has been built.
C13_Witness ==
    /\ CommandBuilt
    /\ ArgsAccepted
    /\ origin = "fetch_features"
    /\ args.exact /\ args.fetch_taxonomy /\ args.resolve_ambiguities = "merge"
    /\ Len(args.features) = 2
    /\ TokenOrderHolds

\* fetch_samples was called with its required parameters only.
OnlyRequired_fetch_samples ==
    /\ origin = "fetch_samples"
    /\ ~args.md5
    /\ args.resolve_ambiguities = "none"
    /\ ~args.fetch_taxonomy

\* C14: built with only their required parameters, fetch samples yields
\* exactly `redbiom fetch samples --context <context> --output <output>`
\* followed by the sample ids in the given order, separated by single spaces
\* and with no other token, and summarize contexts yields exactly
\* `redbiom summarize contexts`.
C14_DocumentedStrings ==
    CommandBuilt =>
        /\ (OnlyRequired_fetch_samples /\ ArgsAccepted) =>
              /\ command = "redbiom fetch samples --context " \o args.context
                              \o " --output " \o args.output
                              \o " " \o join(" ", args.samples)
              /\ WordTexts = <<"redbiom", "fetch", "samples", "--context", args.context, "--output", args.output>>
                                \o args.samples
        /\ origin = "summarize_contexts" => command = "redbiom summarize contexts"

\* The documented fetch samples command for two sample ids has been built.
C14_Witness ==
    /\ CommandBuilt
    /\ OnlyRequired_fetch_samples
    /\ args.samples = <<"s1", "s2">>
    /\ command = "redbiom fetch samples --context ctxA --output out.biom s1 s2"

\* The argument that fills each required flag.
RequiredArg ==
    [ context |-> "--context", output |-> "--output", output_basename |-> "--output-basename",
      category |-> "--category" ]

\* The required string arguments of the call that was made.
RequiredFields ==
    {f \in DOMAIN RequiredArg :
        /\ f \in DOMAIN args
        /\ InList(RequiredArg[f], Declared[origin].required)}

\* The flag stands in the command as a word followed by a word that is no
\* flag itself.
CarriesValue(flag) ==
    LET w == WordTexts
    IN  \E i \in 1..(Len(w) - 1) : w[i] = flag /\ ~IsFlag(w[i + 1])

\* Nothing but the required string arguments can be wrong with the call.
OtherArgsAccepted ==
    LET d == DOMAIN args
    IN  /\ "min_count" \in d => args.min_count >= 1
        /\ ("resolve_ambiguities" \in d /\ origin # "fetch_sample_metadata")
              => args.resolve_ambiguities \in {"none", "merge", "most-reads"}
        /\ "features" \in d => Len(args.features) > 0
        /\ ("samples" \in d /\ origin # "fetch_sample_metadata") => Len(args.samples) > 0

\* C15: building with a required flag absent or empty fails and returns no
\* command; so every command a builder returns was built from non-empty
\* required values and carries each required flag with a value.
C15_RequiredFlagsNeverEmpty ==
    (CommandBuilt /\ origin \in AgentBuilders /\ OtherArgsAccepted) =>
        /\ \A f \in RequiredFields : args[f] # ""
        /\ \A k \in 1..Len(Declared[origin].required) : CarriesValue(Declared[origin].required[k])

\* The value holds a blank, a quote character or a shell operator character.
NeedsQuoting(v) ==
    \E i \in 1..Len(v) :
        CharAt(v, i) \in ShellBlanks \cup ShellQuotes \cup ShellOperatorChars

Elements(list) == {list[i] : i \in 1..Len(list)}

\* Every string the caller supplied as a parameter value.
SuppliedStrings ==
    LET d == DOMAIN args
    IN  {args[f] : f \in {"output", "output_basename", "query", "taxon", "category"} \cap d}
        \cup (IF "context" \notin d THEN {}
              ELSE IF origin \in OptionalContextBuilders THEN Elements(args.context)
              ELSE {args.context})
        \cup (IF "features" \in d THEN Elements(args.features) ELSE {})
        \cup (IF "samples" \notin d THEN {}
              ELSE IF origin = "fetch_sample_metadata" THEN Elements(ListOf(args.samples))
              ELSE Elements(args.samples))
        \cup (IF origin = "summarize_metadata" THEN Elements(ListOf(args.categories)) ELSE {})
        \cup (IF "force_categories" \in d THEN Elements(ListOf(args.force_categories)) ELSE {})

\* C16: every parameter value that holds whitespace, a quote character or a
\* shell metacharacter reaches the process runner as exactly one word equal
\* to the value, and no value adds a shell operator to the command.
C16_ValuesAreSingleTokens ==
    (CommandBuilt /\ origin \in AgentBuilders /\ OtherArgsAccepted) =>
        /\ OnlyWords
        /\ \A v \in SuppliedStrings : NeedsQuoting(v) => InList(v, WordTexts)

\* The flag stands in the command as a word followed by the word value.
FlagWordWithValue(flag, value) ==
    LET w == WordTexts
    IN  \E i \in 1..(Len(w) - 1) : w[i] = flag /\ w[i + 1] = value

\* C17: search features and search samples return no command for a minimum
\* observation count below 1, and for every count n >= 1 the command
\* contains `--min-count n`.
C17_MinCountAtLeastOne ==
    (/\ CommandBuilt
     /\ origin \in {"search_features", "search_samples"}
     /\ SaneStr(args.context)) =>
        /\ args.min_count >= 1
        /\ FlagWordWithValue("--min-count", str(args.min_count))

ResolveChoices == {"none", "merge", "most-reads"}

\* C18: fetch_features, fetch_samples and fetch_qiita_study treat
\* resolve_ambiguities as a choice among none, merge and most-reads: the
\* command contains `--resolve-ambiguities V` exactly when V is merge or
\* most-reads, no such flag when V is none, and no command is returned for
\* any other value.
C18_ResolveAmbiguitiesIsAChoice ==
    (/\ CommandBuilt
     /\ origin \in {"fetch_features", "fetch_samples", "fetch_qiita_study"}
     /\ SaneStr(args.context)) =>
        /\ args.resolve_ambiguities \in ResolveChoices
        /\ \A V \in {"merge", "most-reads"} :
              FlagWordWithValue("--resolve-ambiguities", V) <=> args.resolve_ambiguities = V
        /\ args.resolve_ambiguities = "none" => ~InList("--resolve-ambiguities", WordTexts)

\* The boolean parameters and the flag each one switches on.
BoolFlag ==
    [ exact |-> "--exact", categories |-> "--categories", all_columns |-> "--all-columns",
      tagged |-> "--tagged", unambiguous |-> "--unambiguous", counter |-> "--counter",
      descending |-> "--descending", dump |-> "--dump", fetch_taxonomy |-> "--fetch-taxonomy",
      remove_blanks |-> "--remove-blanks" ]

\* The boolean parameters of the call that was made (categories is a list
\* for summarize_metadata).
BoolFields ==
    {f \in DOMAIN BoolFlag \cap DOMAIN args : f = "categories" => origin = "search_metadata"}

\* The words of w that follow the occurrences of flag, in order.
ValuesOf(flag, w) ==
    LET at == SelectSeq([i \in 1..(Len(w) - 1) |-> i], LAMBDA i : w[i] = flag)
    IN  [k \in 1..Len(at) |-> w[at[k] + 1]]

\* C19: each optional flag appears exactly when its parameter was supplied:
\* a boolean flag token is present iff the parameter is true, `--context C`
\* is present for fetch sample-metadata / samples-contained /
\* features-contained iff a context was given, and force_categories yields
\* one `--force-category c` pair per category, in order.
C19_OptionalFlagsIffSupplied ==
    (CommandBuilt /\ origin \in AgentBuilders) =>
        LET w == WordTexts
        IN  /\ \A f \in BoolFields : InList(BoolFlag[f], w) <=> args[f]
            /\ (origin \in OptionalContextBuilders /\ ArgsAccepted) =>
                  /\ InList("--context", w) <=> args.context # NoneArg
                  /\ args.context # NoneArg => ValuesOf("--context", w) = args.context
            /\ origin = "fetch_sample_metadata" =>
                  /\ ValuesOf("--force-category", w) = ListOf(args.force_categories)
                  /\ w[Len(w)] # "--force-category"

\* fetch sample-metadata has been built with a context, with all_columns
\* but not tagged, and with two categories to force.
C19_Witness ==
    /\ CommandBuilt
    /\ origin = "fetch_sample_metadata"
    /\ args.context = Some("ctxA")
    /\ args.all_columns /\ ~args.tagged
    /\ args.force_categories = Some(<<"sex", "age">>)
    /\ contains(command, " --context ctxA --all-columns --force-category sex --force-category age")
    /\ ~InList("--tagged", WordTexts)

\* The values fetch_qiita_study takes for the parameters a call leaves out.
fetch_qiita_study_defaults ==
    [resolve_ambiguities |-> "none", fetch_taxonomy |-> FALSE, remove_blanks |-> FALSE, md5 |-> TRUE]

\* fetch_qiita_study was called with study id, context and output basename
\* only.
OnlyRequired_fetch_qiita_study ==
    /\ origin = "fetch_qiita_study"
    /\ \A f \in DOMAIN fetch_qiita_study_defaults : args[f] = fetch_qiita_study_defaults[f]

\* C20: fetch_qiita_study called with only study id, context and output
\* basename yields a command that begins
\* `redbiom fetch qiita-study --study-id <id>`, contains `--context <context>`
\* and `--output-basename <basename>`, and contains `--md5 True`; called
\* with md5=False the command does not contain `--md5 True`.
C20_QiitaStudyMd5True ==
    (CommandBuilt /\ origin = "fetch_qiita_study" /\ SaneStr(args.context)) =>
        /\ OnlyRequired_fetch_qiita_study =>
              /\ startswith(command, "redbiom fetch qiita-study --study-id " \o str(args.study_id))
              /\ contains(command, "--context " \o args.context)
              /\ contains(command, "--output-basename " \o args.output_basename)
              /\ contains(command, "--md5 True")
        /\ ~args.md5 => ~contains(command, "--md5 True")

(***************************************************************************)
(* The process runners.  execute_command of streamlit_redbiom_app.py and   *)
(* of streamlit_attempts/app.py hand a command string to subprocess.run;   *)
(* run_redbiom_command of Langchain_attempts/tools.py hands it an argument *)
(* list.  What the started process does is the environment's choice: it    *)
(* exits with a code, it runs on past any time limit, or it cannot be      *)
(* started at all.                                                         *)
(***************************************************************************)
TimeoutSeconds == 300

\* The keyword arguments each runner passes to subprocess.run; timeout is
\* <<>> when the keyword is not passed.
RunnerKwargs ==
    [ execute_command |->
        [shell |-> TRUE, capture_output |-> TRUE, text |-> TRUE, check |-> TRUE, timeout |-> <<TimeoutSeconds>>],
      wizard_execute_command |->
        [shell |-> TRUE, capture_output |-> TRUE, text |-> TRUE, check |-> FALSE, timeout |-> <<TimeoutSeconds>>],
      run_redbiom_command |->
        [shell |-> FALSE, capture_output |-> TRUE, text |-> TRUE, check |-> TRUE, timeout |-> <<>>] ]

Runners == DOMAIN RunnerKwargs

ExitCodes == {0, 1, 2, 127}

StdoutTexts == {"", "s1\ns2"}

StderrTexts == {"", "Connection refused", "Usage: redbiom [OPTIONS]"}

LaunchErrors == {"[Errno 2] No such file or directory"}

\* What the started process can do.
Behaviours ==
    {[kind |-> "exit", returncode |-> c, stdout |-> o, stderr |-> e] :
        c \in ExitCodes, o \in StdoutTexts, e \in StderrTexts}
    \cup {[kind |-> "runs_on"]}
    \cup {[kind |-> "cannot_start", message |-> m] : m \in LaunchErrors}

\* subprocess.run(..., **kwargs) for a process that behaves as b: the
\* CompletedProcess it returns or the exception it raises; with no timeout
\* a process that runs on keeps the call waiting.
subprocess_run(kwargs, b) ==
    IF b.kind = "cannot_start" THEN [tag |-> "OSError", message |-> b.message]
    ELSE IF b.kind = "runs_on"
    THEN IF kwargs.timeout = <<>> THEN [tag |-> "waiting"] ELSE [tag |-> "TimeoutExpired"]
    ELSE IF kwargs.check /\ b.returncode # 0
    THEN [tag |-> "CalledProcessError", stdout |-> b.stdout, stderr |-> b.stderr]
    ELSE [tag |-> "CompletedProcess", returncode |-> b.returncode, stdout |-> b.stdout, stderr |-> b.stderr]

Returned(v) == [tag |-> "returned", value |-> v]

TimeoutText == "Command timed out after 5 minutes"

\* execute_command with check=True left out of the call.
execute_command_without_check(r) ==
    IF r.tag = "CompletedProcess" THEN Returned(<<TRUE, r.stdout, "">>)
    ELSE IF r.tag = "TimeoutExpired" THEN Returned(<<FALSE, "", TimeoutText>>)
    ELSE IF r.tag = "CalledProcessError" THEN Returned(<<TRUE, r.stdout, "">>)
    ELSE Returned(<<FALSE, "", r.message>>)

\* execute_command of streamlit_redbiom_app.py, r being what subprocess.run
\* did: the return of the try body or of the except clause that matches.
execute_command(r) ==
    IF r.tag = "CompletedProcess" THEN Returned(<<TRUE, r.stdout, "">>)
    ELSE IF r.tag = "TimeoutExpired" THEN Returned(<<FALSE, "", TimeoutText>>)
    ELSE IF r.tag = "CalledProcessError" THEN Returned(<<FALSE, "", r.stderr>>)
    ELSE Returned(<<FALSE, "", r.message>>)

\* execute_command of streamlit_attempts/app.py.
wizard_execute_command(r) ==
    IF r.tag = "CompletedProcess"
    THEN IF r.returncode = 0
         THEN Returned(<<TRUE, r.stdout, r.stderr>>)
         ELSE Returned(<<FALSE, r.stdout, r.stderr>>)
    ELSE IF r.tag = "TimeoutExpired" THEN Returned(<<FALSE, "", TimeoutText>>)
    ELSE Returned(<<FALSE, "", r.message>>)

\* run_redbiom_command of tools.py; it returns a dict.
run_redbiom_command(r) ==
    IF r.tag = "CompletedProcess"
    THEN Returned([success |-> TRUE, stdout |-> r.stdout, stderr |-> r.stderr])
    ELSE IF r.tag = "CalledProcessError"
    THEN Returned([success |-> FALSE, stdout |-> r.stdout,
                   stderr |-> IF r.stderr # "" THEN r.stderr ELSE "Command returned non-zero exit status"])
    ELSE Returned([success |-> FALSE, stdout |-> "", stderr |-> r.message])

RunnerCommands == {"redbiom summarize contexts", "redbiom search metadata antibiotics"}

\* A runner is called and starts the subprocess.
Launch ==
    /\ proc.pc = "idle"
    /\ \E runner \in Runners, cmd \in RunnerCommands :
          proc' = [pc |-> "running", runner |-> runner, cmd |-> cmd, kwargs |-> RunnerKwargs[runner]]
    /\ UNCHANGED <<commandVars, wizard, agent, chat, threads>>

\* subprocess.run returns or raises, and the runner returns to its caller.
Finish ==
    /\ proc.pc = "running"
    /\ \E b \in Behaviours :
          LET r == subprocess_run(proc.kwargs, b)
          IN  /\ r.tag # "waiting"
              /\ proc' = [proc EXCEPT !.pc = "done"] @@
                    [ behaviour |-> b,
                      ret |-> IF proc.runner = "execute_command" THEN execute_command(r)
                              ELSE IF proc.runner = "wizard_execute_command" THEN wizard_execute_command(r)
                              ELSE run_redbiom_command(r) ]
    /\ UNCHANGED <<commandVars, wizard, agent, chat, threads>>

\* The caller has taken the result.
Forget ==
    /\ proc.pc = "done"
    /\ proc' = ProcIdle
    /\ UNCHANGED <<commandVars, wizard, agent, chat, threads>>

NextRunner == Launch \/ Finish \/ Forget

SpecRunner == Init /\ [][NextRunner]_vars

\* The process exited with code 0 within the time limit.
ExitedZero(b) == b.kind = "exit" /\ b.returncode = 0

\* C21: execute_command returns a (success, stdout, stderr) triple for every
\* outcome of the subprocess and never raises; success is true exactly when
\* the process exited with code 0 within the timeout, and a timeout is
\* reported with an error text distinct from the report of a non-zero exit.
C21_RunnerAlwaysReturnsTriple ==
    (proc.pc = "done" /\ proc.runner \in {"execute_command", "wizard_execute_command"}) =>
        /\ proc.ret.tag = "returned"
        /\ Len(proc.ret.value) = 3
        /\ proc.ret.value[1] = ExitedZero(proc.behaviour)
        /\ proc.behaviour.kind = "runs_on" => proc.ret.value[3] = TimeoutText
        /\ (proc.behaviour.kind = "exit" /\ proc.behaviour.returncode # 0) =>
              /\ proc.ret.value[3] = proc.behaviour.stderr
              /\ proc.ret.value[3] # TimeoutText

\* A timeout has been reported by execute_command.
C21_Witness ==
    /\ proc.pc = "done"
    /\ proc.runner = "execute_command"
    /\ proc.behaviour.kind = "runs_on"
    /\ proc.ret = Returned(<<FALSE, "", TimeoutText>>)

\* C22: every redbiom subprocess a runner starts is launched with a timeout
\* of 300 seconds, together with shell=True, capture_output and text.
C22_EveryLaunchHasTimeout ==
    proc.pc \in {"running", "done"} =>
        /\ proc.kwargs.timeout = <<300>>
        /\ proc.kwargs.shell
        /\ proc.kwargs.capture_output
        /\ proc.kwargs.text

(***************************************************************************)
(* Concurrent calls of validate_redbiom_command.  Each call has its own    *)
(* locals: command, required_subcommands (assigned at line 210 from a      *)
(* literal) and the two lists; the module holds no variable the function   *)
(* writes.  A thread's record is its call frame.                           *)
(***************************************************************************)
ThreadCommands ==
    { "rebiom search",
      "redbiom",
      "redbiom bogus",
      "redbiom fetch",
      "redbiom fetch qiita-study --context ctxA",
      "redbiom search metadata antibiotics" }

\* The local name required_subcommands before its assignment.
NotBuilt == <<>>

Frame(p, cmd, table, report) == [pc |-> p, command |-> cmd, table |-> table, report |-> report]

\* The checks after line 243 with a statement that removes the table's first entry.
required_subcommands_after_checks_popped(table) == Tail(table)

\* The checks after line 243 read the table with keys(), `in` and [ ]: none
\* assigns to it or calls a method that changes it.
required_subcommands_after_checks(table) == table

\* The call starts: `command = command.strip()`.
Enter(t) ==
    /\ threads[t].pc = "idle"
    /\ \E cmd \in ThreadCommands :
        threads' = [threads EXCEPT ![t] = Frame("entered", cmd, NotBuilt, Pending)]
    /\ UNCHANGED <<commandVars, proc, wizard, agent, chat>>

\* The program-name test returns before the table exists; otherwise the
\* literal is evaluated and bound to the local name.
BuildTable(t) ==
    /\ threads[t].pc = "entered"
    /\ LET f == threads[t]
       IN  threads' = [threads EXCEPT ![t] =
                IF ProgramNameFails(strip(f.command))
                THEN Frame("returned", f.command, NotBuilt,
                           validate_redbiom_command_in(NotBuilt, f.command))
                ELSE Frame("built", f.command, required_subcommands, Pending)]
    /\ UNCHANGED <<commandVars, proc, wizard, agent, chat>>

\* The rest of the body, reading the call's own table.
RunChecks(t) ==
    /\ threads[t].pc = "built"
    /\ LET f == threads[t]
       IN  threads' = [threads EXCEPT ![t] =
                Frame("returned", f.command, required_subcommands_after_checks(f.table),
                      validate_redbiom_command_in(f.table, f.command))]
    /\ UNCHANGED <<commandVars, proc, wizard, agent, chat>>

\* The caller has the report; the frame and its locals are gone.
Leave(t) ==
    /\ threads[t].pc = "returned"
    /\ threads' = [threads EXCEPT ![t] = ThreadIdle]
    /\ UNCHANGED <<commandVars, proc, wizard, agent, chat>>

NextThreads == \E t \in Threads : Enter(t) \/ BuildTable(t) \/ RunChecks(t) \/ Leave(t)

SpecThreads == Init /\ [][NextThreads]_vars

MaxCompleted == 5

\* The length up to which the model follows command_history.
MaxHistory == 3

\* The `steps` list of the sidebar.
WizardSteps == <<"Query Samples", "Verify Samples", "Fetch Metadata", "Get BIOM Table">>

\* Default values of the three output filename inputs.
sample_output == "samples.txt"

metadata_output == "metadata.tsv"

biom_output == "feature_table.biom"

fetch_metadata_command(sample_file, context, output) ==
    "redbiom fetch sample-metadata --from " \o sample_file \o " --context " \o context
        \o " --output " \o output \o " --all-columns"

fetch_biom_command(sample_file, context, output) ==
    "redbiom fetch samples --from " \o sample_file \o " --context " \o context
        \o " --output " \o output

\* check_file_exists
check_file_exists(filepath) == filepath # "" /\ filepath \in wizard.files

\* progress = len(ws['completed_steps']) / len(steps), as the pair
\* <<numerator, denominator>>.
progress == <<Len(wizard.ws.completed_steps), Len(WizardSteps)>>

\* The steps that run a command, with the command and its output file.
StepCommand(step) ==
    IF step = 0 THEN query_samples_command(wizard.ws.study_id, wizard.ws.context, sample_output)
    ELSE IF step = 2 THEN fetch_metadata_command(wizard.ws.sample_file, wizard.ws.context, metadata_output)
    ELSE fetch_biom_command(wizard.ws.sample_file, wizard.ws.context, biom_output)

StepOutput(step) ==
    IF step = 0 THEN sample_output ELSE IF step = 2 THEN metadata_output ELSE biom_output

StepField(step) ==
    IF step = 0 THEN "sample_file" ELSE IF step = 2 THEN "metadata_file" ELSE "biom_file"

\* Whether the output file exists once the command has ended.  Step 1's
\* command ends in `> samples.txt`: the shell creates the file before redbiom
\* runs, whatever redbiom then does.  The other two leave the file to redbiom:
\* a failed run writes none, a successful one may or may not (the code has a
\* branch for "executed but output file not found").
FileWritten(step, b, written) ==
    IF b.kind = "cannot_start" THEN FALSE
    ELSE IF step = 0 THEN TRUE
    ELSE ExitedZero(b) /\ written

\* The study id text input.
TypeStudyId ==
    /\ wizard.ws.current_step = 0
    /\ \E study_id \in WizardStudyIds \cup {""} :
        /\ study_id # wizard.ws.study_id
        /\ wizard' = [wizard EXCEPT !.ws.study_id = study_id]
    /\ UNCHANGED <<commandVars, proc, agent, chat, threads>>

\* "Run Command" of steps 1, 3 and 4.
WizardRun ==
    /\ wizard.ws.current_step \in {0, 2, 3}
    /\ wizard.ws.current_step = 0 => wizard.ws.study_id # ""
    /\ Len(wizard.ws.command_history) < MaxHistory
    /\ \E b \in Behaviours, written \in BOOLEAN :
        LET step == wizard.ws.current_step
            ret == wizard_execute_command(subprocess_run(RunnerKwargs.wizard_execute_command, b))
            success == ret.value[1]
            files == IF FileWritten(step, b, written)
                     THEN wizard.files \cup {StepOutput(step)} ELSE wizard.files
            exists == StepOutput(step) \in files
            history == IF success \/ exists
                       THEN Append(wizard.ws.command_history, StepCommand(step))
                       ELSE wizard.ws.command_history
            ws1 == [wizard.ws EXCEPT !.command_history = history]
            ws2 == IF (success \/ exists) /\ exists
                   THEN [ws1 EXCEPT ![StepField(step)] = StepOutput(step)]
                   ELSE ws1
        IN  wizard' = [ws |-> ws2, files |-> files,
                       succeeded |-> IF success THEN wizard.succeeded \cup {step}
                                     ELSE wizard.succeeded]
    /\ UNCHANGED <<commandVars, proc, agent, chat, threads>>

\* "Next Step" with the append to completed_steps left out.
WizardNext_without_record ==
    /\ wizard.ws.current_step \in {0, 1, 2}
    /\ wizard.ws.current_step = 0 => wizard.ws.study_id # "" /\ check_file_exists(sample_output)
    /\ wizard.ws.current_step = 1 => check_file_exists(wizard.ws.sample_file)
    /\ wizard.ws.current_step = 2 => check_file_exists(metadata_output)
    /\ Len(wizard.ws.completed_steps) < MaxCompleted
    /\ LET step == wizard.ws.current_step
           ws1 == IF step = 1 THEN wizard.ws
                  ELSE [wizard.ws EXCEPT ![StepField(step)] = StepOutput(step)]
       IN  wizard' = [wizard EXCEPT !.ws = [ws1 EXCEPT !.current_step = step + 1]]
    /\ UNCHANGED <<commandVars, proc, agent, chat, threads>>

\* "Next Step" of steps 1, 2 and 3, shown when the step's file exists.
WizardNext ==
    /\ wizard.ws.current_step \in {0, 1, 2}
    /\ wizard.ws.current_step = 0 => wizard.ws.study_id # "" /\ check_file_exists(sample_output)
    /\ wizard.ws.current_step = 1 => check_file_exists(wizard.ws.sample_file)
    /\ wizard.ws.current_step = 2 => check_file_exists(metadata_output)
    /\ Len(wizard.ws.completed_steps) < MaxCompleted
    /\ LET step == wizard.ws.current_step
           ws1 == IF step = 1 THEN wizard.ws
                  ELSE [wizard.ws EXCEPT ![StepField(step)] = StepOutput(step)]
       IN  wizard' = [wizard EXCEPT !.ws =
                [ws1 EXCEPT !.completed_steps = Append(@, step),
                            !.current_step = step + 1]]
    /\ UNCHANGED <<commandVars, proc, agent, chat, threads>>

\* "Back" of steps 2, 3 and 4; step 2 shows one of its two Back buttons
\* whether the sample file exists or not.
WizardBack ==
    /\ wizard.ws.current_step \in {1, 2, 3}
    /\ wizard.ws.current_step = 2 => check_file_exists(metadata_output)
    /\ wizard.ws.current_step = 3 => check_file_exists(biom_output)
    /\ wizard' = [wizard EXCEPT !.ws.current_step = @ - 1]
    /\ UNCHANGED <<commandVars, proc, agent, chat, threads>>

\* "Complete" of step 4.
WizardComplete ==
    /\ wizard.ws.current_step = 3
    /\ check_file_exists(biom_output)
    /\ Len(wizard.ws.completed_steps) < MaxCompleted
    /\ wizard' = [wizard EXCEPT !.ws =
            [wizard.ws EXCEPT !.biom_file = biom_output,
                              !.completed_steps = Append(@, 3),
                              !.current_step = 4]]
    /\ UNCHANGED <<commandVars, proc, agent, chat, threads>>

\* "Reset Workflow" of the sidebar and "Start New Workflow" of the completion
\* screen: the same dict is assigned; the files stay on disk.
WizardReset ==
    /\ wizard.ws # initial_workflow_state
    /\ wizard' = [wizard EXCEPT !.ws = initial_workflow_state, !.succeeded = {}]
    /\ UNCHANGED <<commandVars, proc, agent, chat, threads>>

NextWizard ==
    TypeStudyId \/ WizardRun \/ WizardNext \/ WizardBack \/ WizardComplete \/ WizardReset

SpecWizard == Init /\ [][NextWizard]_vars

\* C24: completed_steps holds each step index at most once, so the value
\* given to st.progress lies between 0 and 1.
C24_ProgressWithinBounds ==
    /\ \A i, j \in 1..Len(wizard.ws.completed_steps) :
            i # j => wizard.ws.completed_steps[i] # wizard.ws.completed_steps[j]
    /\ 0 <= progress[1] /\ progress[1] <= progress[2]

\* C25: current_step is in 0..4 and every step below it is in
\* completed_steps; Next and Complete raise current_step by one, Back lowers
\* it by one, and Reset puts the initial workflow_state back.
C25_StepsInOrder ==
    /\ [](/\ wizard.ws.current_step \in 0..4
          /\ \A s \in 0..3 : s < wizard.ws.current_step => InList(s, wizard.ws.completed_steps))
    /\ [][(WizardNext \/ WizardComplete)
            => wizard'.ws.current_step = wizard.ws.current_step + 1]_vars
    /\ [][WizardBack => wizard'.ws.current_step = wizard.ws.current_step - 1]_vars
    /\ [][WizardReset => wizard'.ws = initial_workflow_state]_vars

\* Back was pressed after two Next: current_step is 1 again and index 1 is
\* among the completed steps.
C25_Witness ==
    /\ wizard.ws.current_step = 1
    /\ InList(1, wizard.ws.completed_steps)
    /\ wizard.ws.sample_file = sample_output

\* C26: on the completion screen the commands of steps 1, 3 and 4 have each
\* returned success since the last reset.
C26_CompletionOnlyAfterSuccess ==
    wizard.ws.current_step = 4 => {0, 2, 3} \subseteq wizard.succeeded

(***************************************************************************)
(* run_agent (Langchain_attempts/nother_file.py).  One step of the model   *)
(* is one pass through the while loop: the model's response is the input.  *)
(***************************************************************************)
\* Largest max_iterations the model calls run_agent with.
MaxIterations == 2

\* Largest number of tool calls in one response.
MaxCalls == 2

\* Keys of the function registry.
available_functions ==
    { "search_features", "search_samples", "search_metadata", "search_taxon",
      "fetch_sample_metadata", "fetch_features", "fetch_samples", "fetch_qiita_study",
      "fetch_samples_contained", "fetch_features_contained", "summarize_contexts",
      "summarize_metadata_category", "summarize_metadata", "summarize_features",
      "summarize_samples", "summarize_taxonomy", "select_samples_from_metadata",
      "select_features_from_samples" }

\* An empty dict of arguments.
NoKwargs == <<>>

\* The function calls a response can ask for: the name and the dict that
\* json.loads makes of the arguments string.  Two of them name registered functions,
\* the third a function the registry does not have.
ToolCallRequests ==
    { [name |-> "summarize_contexts", arguments |-> NoKwargs],
      [name |-> "search_metadata", arguments |-> [query |-> "antibiotics", categories |-> FALSE]],
      [name |-> "run_shell", arguments |-> NoKwargs] }

\* function_to_call(**function_args) for the functions of ToolCallRequests.
function_to_call(function_name, function_args) ==
    IF function_name = "summarize_contexts" THEN summarize_contexts
    ELSE search_metadata(function_args.query, function_args.categories)

RECURSIVE ToolCallLists(_)
ToolCallLists(n) ==
    IF n = 0 THEN {<<>>}
    ELSE ToolCallLists(n - 1)
            \cup {Append(l, c) : l \in {x \in ToolCallLists(n - 1) : Len(x) = n - 1},
                                 c \in ToolCallRequests}

\* The model's text; None is "".
Contents == {"", "Here are the commands."}

\* response.choices[0].message of the iteration-th call: a text without tool
\* calls, or tool calls without text; the k-th call of the response has the
\* id <<iteration, k>>.
ResponseMessages(iteration) ==
    {[role |-> "assistant", content |-> c, tool_calls |-> <<>>] : c \in Contents}
    \cup {[role |-> "assistant", content |-> "",
           tool_calls |-> [k \in 1..Len(l) |->
                              [id |-> <<iteration, k>>, name |-> l[k].name, arguments |-> l[k].arguments]]] :
            l \in ToolCallLists(MaxCalls) \ {<<>>}}

UserQueries == {"Find samples of people who took antibiotics"}

\* The message appended for one tool call.
tool_message(tool_call) ==
    [ role |-> "tool",
      tool_call_id |-> tool_call.id,
      name |-> tool_call.name,
      content |-> IF tool_call.name \in available_functions
                  THEN function_to_call(tool_call.name, tool_call.arguments)
                  ELSE "Error: Function " \o tool_call.name \o " not found" ]

\* The entries with an entry for every tool call, found in the registry or not.
command_entries_for_all(tool_calls) ==
    [k \in 1..Len(tool_calls) |->
        [ function |-> tool_calls[k].name,
          arguments |-> tool_calls[k].arguments,
          command |-> tool_message(tool_calls[k]).content ]]

\* The entries the for loop appends to commands_generated.
command_entries(tool_calls) ==
    LET found == SelectSeq(tool_calls, LAMBDA tc : tc.name \in available_functions)
    IN  [k \in 1..Len(found) |->
            [ function |-> found[k].name,
              arguments |-> found[k].arguments,
              command |-> function_to_call(found[k].name, found[k].arguments) ]]

\* The local name response_message before the loop has assigned it.
Unbound == [role |-> "unbound"]

\* run_agent is called: the three assignments before the loop.
AgentStart ==
    /\ agent.pc = "idle"
    /\ \E max_iterations \in 0..MaxIterations, user_query \in UserQueries :
        agent' = [ pc |-> "loop",
                   max_iterations |-> max_iterations,
                   iteration |-> 0,
                   messages |-> << [role |-> "user", content |-> user_query] >>,
                   commands_generated |-> <<>>,
                   response_message |-> Unbound,
                   ret |-> Pending ]
    /\ UNCHANGED <<commandVars, proc, wizard, chat, threads>>

\* One pass through the loop body: the model is called, its message is
\* appended, and either the loop is left or every tool call is processed.
AgentIterate ==
    /\ agent.pc = "loop"
    /\ agent.iteration < agent.max_iterations
    /\ \E response_message \in ResponseMessages(agent.iteration + 1) :
        LET tool_calls == response_message.tool_calls
        IN  agent' = [agent EXCEPT
                !.iteration = @ + 1,
                !.response_message = response_message,
                !.messages = Append(@, response_message)
                                \o [k \in 1..Len(tool_calls) |-> tool_message(tool_calls[k])],
                !.commands_generated = @ \o command_entries(tool_calls),
                !.pc = IF tool_calls = <<>> THEN "break" ELSE "loop"]
    /\ UNCHANGED <<commandVars, proc, wizard, chat, threads>>

\* The return statement, after the break or when the loop condition fails;
\* it reads response_message, which no statement has bound when the loop
\* body never ran.
AgentReturn ==
    /\ \/ agent.pc = "break"
       \/ agent.pc = "loop" /\ agent.iteration >= agent.max_iterations
    /\ agent' = [agent EXCEPT
            !.pc = "done",
            !.ret = IF agent.response_message = Unbound
                    THEN [tag |-> "UnboundLocalError"]
                    ELSE Returned([ messages |-> agent.messages,
                                    commands |-> agent.commands_generated,
                                    final_response |->
                                        IF agent.response_message.content # ""
                                        THEN <<agent.response_message.content>>
                                        ELSE NoneArg ])]
    /\ UNCHANGED <<commandVars, proc, wizard, chat, threads>>

\* The caller has the result.
AgentForget ==
    /\ agent.pc = "done"
    /\ agent' = AgentIdle
    /\ UNCHANGED <<commandVars, proc, wizard, chat, threads>>

NextAgent == AgentStart \/ AgentIterate \/ AgentReturn \/ AgentForget

SpecAgent == Init /\ [][NextAgent]_vars

\* The assistant messages of the conversation, in order.
AssistantMessages == SelectSeq(agent.messages, LAMBDA m : m.role = "assistant")

\* C27: run_agent calls the model at most max_iterations times, makes no call
\* after a response without tool calls, and returns a dict with messages,
\* commands and final_response, for every max_iterations >= 0.
C27_AgentReturnsDict ==
    agent.pc # "idle" =>
        /\ agent.iteration <= agent.max_iterations
        /\ Len(AssistantMessages) = agent.iteration
        /\ \A i \in 1..(Len(AssistantMessages) - 1) : AssistantMessages[i].tool_calls # <<>>
        /\ agent.pc = "done" =>
                /\ agent.ret.tag = "returned"
                /\ DOMAIN agent.ret.value = {"messages", "commands", "final_response"}

\* The tool messages that follow the assistant message at position i.
Answers(i) ==
    LET n == Len(agent.messages[i].tool_calls)
    IN  IF i + n <= Len(agent.messages) THEN SubSeq(agent.messages, i + 1, i + n) ELSE <<>>

\* The tool messages of the conversation that name a registered function.
RegisteredAnswers ==
    SelectSeq(agent.messages, LAMBDA m : m.role = "tool" /\ m.name \in available_functions)

MaxExchanges == 2

\* The length up to which the model follows command_outputs.
MaxOutputs == 1

\* Position of the first occurrence of p in s at or after start, 0 if none.
find(s, p, start) ==
    LET hits == {i \in start..(Len(s) - Len(p) + 1) : SubSeq(s, i, i + Len(p) - 1) = p}
    IN  IF hits = {} THEN 0 ELSE CHOOSE i \in hits : \A j \in hits : i <= j

\* re.sub(open + ".*?" + close, "", s, flags=re.DOTALL)
RECURSIVE sub_block(_, _, _)
sub_block(s, open, close) ==
    LET i == find(s, open, 1)
        j == IF i = 0 THEN 0 ELSE find(s, close, i + Len(open))
    IN  IF j = 0 THEN s
        ELSE SubSeq(s, 1, i - 1) \o sub_block(SubSeq(s, j + Len(close), Len(s)), open, close)

\* re.sub(literal, "", s)
RECURSIVE sub_literal(_, _)
sub_literal(s, literal) ==
    LET i == find(s, literal, 1)
    IN  IF i = 0 THEN s
        ELSE SubSeq(s, 1, i - 1) \o sub_literal(SubSeq(s, i + Len(literal), Len(s)), literal)

\* re.sub of a run of three or more of the character ch: r"\.\.\.+", r"---+".
RECURSIVE sub_run(_, _)
sub_run(s, ch) ==
    LET i == find(s, ch \o ch \o ch, 1)
        e == CHOOSE k \in i..Len(s) :
                /\ \A m \in i..k : CharAt(s, m) = ch
                /\ k = Len(s) \/ CharAt(s, k + 1) # ch
    IN  IF i = 0 THEN s
        ELSE SubSeq(s, 1, i - 1) \o sub_run(SubSeq(s, e + 1, Len(s)), ch)

\* clean_qwen_output.  The pattern for a fenced thinking block is written
\* with backquotes, which a TLA+ string cannot hold; no text of RawResponses
\* has one, so that substitution changes nothing here.
clean_qwen_output(text) ==
    strip(sub_run(sub_run(sub_literal(sub_literal(
        sub_block(sub_block(text, "<think>", "</think>"), "<thinking>", "</thinking>"),
        "Assistant:"), "Human:"), "."), "-"))

SYSTEM_PROMPT ==
    "You are a specialized assistant for generating redbiom commands. \n"
        \o "Always provide valid, executable redbiom commands based on the user's request.\n"
        \o "Your responses should be properly formatted commands that can be executed directly."

\* What the model answers.
RawResponses ==
    { "redbiom summarize contexts",
      "<think>The user wants the contexts.</think>\n\nredbiom summarize contexts\n",
      "Assistant: you can run redbiom summarize contexts ...",
      "Human: <think>not sure</think>\n-----\n" }

\* The request raised an exception.
RequestFailed == [tag |-> "Exception"]

ModelAnswers == {[tag |-> "text", text |-> r] : r \in RawResponses} \cup {RequestFailed}

ChatQueries == {"list the contexts", "which contexts are there?"}

Message(role, content) == [role |-> role, content |-> content]

RECURSIVE HistoryMessages(_)
HistoryMessages(history) ==
    IF history = <<>> THEN <<>>
    ELSE << Message("user", history[1].user_message),
            Message("assistant", history[1].assistant_response) >>
            \o HistoryMessages(Tail(history))

build_conversation_messages(history) ==
    <<Message("system", SYSTEM_PROMPT)>> \o HistoryMessages(history)

\* generate_command_streaming and generate_command_regular: the messages of
\* the request and the value returned, <<>> for None.
generate_command(user_query, answer) ==
    [ messages |-> Append(build_conversation_messages(chat.conversation_history),
                          Message("user", user_query)),
      command |-> IF answer.tag = "Exception" THEN NoneArg
                  ELSE <<clean_qwen_output(answer.text)>> ]

\* `if generated_command:` : neither None nor the empty string.
Truthy(optional) == optional # NoneArg /\ optional[1] # ""

\* The section below the command is drawn down to its buttons only when the
\* unpacking at line 571 gets a tuple.
ButtonsShown ==
    /\ chat.generated_command # ""
    /\ validate_redbiom_command(chat.generated_command).result.tag = "tuple"

\* The streaming toggle of the sidebar.
ToggleStreaming ==
    /\ chat' = [chat EXCEPT !.streaming_enabled = ~@]
    /\ UNCHANGED <<commandVars, proc, wizard, agent, threads>>

\* "Generate Command" with a question typed.
Generate ==
    /\ Len(chat.conversation_history) < MaxExchanges
    /\ \E user_query \in ChatQueries, answer \in ModelAnswers :
        LET g == generate_command(user_query, answer)
        IN  chat' = IF Truthy(g.command)
                    THEN [chat EXCEPT
                            !.sent = g.messages,
                            !.generated_command = g.command[1],
                            !.conversation_history =
                                Append(@, [user_message |-> user_query,
                                           assistant_response |-> g.command[1]])]
                    ELSE [chat EXCEPT !.sent = g.messages]
    /\ UNCHANGED <<commandVars, proc, wizard, agent, threads>>

\* "Regenerate Command".
Regenerate ==
    /\ ButtonsShown
    /\ chat.conversation_history # <<>>
    /\ \E answer \in ModelAnswers :
        LET n == Len(chat.conversation_history)
            last_query == chat.conversation_history[n].user_message
            g == generate_command("Please regenerate the command for: " \o last_query, answer)
        IN  chat' = IF Truthy(g.command)
                    THEN [chat EXCEPT !.sent = g.messages, !.generated_command = g.command[1]]
                    ELSE [chat EXCEPT !.sent = g.messages]
    /\ UNCHANGED <<commandVars, proc, wizard, agent, threads>>

\* What the user can make of the command in the text area.
Edits(generated) == {generated, generated \o " --help", "redbiom"}

\* "Execute Command".  An edited command is validated first (line 606), and
\* the button is reached only when that call returned a tuple as well.
Execute ==
    /\ ButtonsShown
    /\ Len(chat.command_outputs) < MaxOutputs
    /\ LET is_valid == validate_redbiom_command(chat.generated_command).result.is_valid
       IN  \E edited_command \in Edits(chat.generated_command) :
            /\ edited_command # chat.generated_command
                => validate_redbiom_command(edited_command).result.tag = "tuple"
            /\ \E b \in Behaviours :
                LET ret == execute_command(subprocess_run(RunnerKwargs.execute_command, b)).value
                IN  chat' = [chat EXCEPT !.command_outputs =
                                Append(@, [ command |-> edited_command,
                                            success |-> ret[1],
                                            stdout |-> ret[2],
                                            stderr |-> ret[3],
                                            was_validated |-> is_valid ])]
    /\ UNCHANGED <<commandVars, proc, wizard, agent, threads>>

\* "Clear Conversation".
Clear ==
    /\ chat' = [chat EXCEPT !.conversation_history = <<>>,
                            !.generated_command = "",
                            !.command_outputs = <<>>,
                            !.sent = <<>>]
    /\ UNCHANGED <<commandVars, proc, wizard, agent, threads>>

NextChat == ToggleStreaming \/ Generate \/ Regenerate \/ Execute \/ Clear

SpecChat == Init /\ [][NextChat]_vars

\* C29: every entry of conversation_history holds a non-empty command; the
\* messages of a request are the system prompt, the user/assistant pairs of
\* the history in order, and the new question; and with a non-empty history
\* the displayed generated_command is the assistant_response of its last
\* entry.
C29_HistoryMatchesDisplay ==
    /\ \A i \in 1..Len(chat.conversation_history) :
            chat.conversation_history[i].assistant_response # ""
    /\ chat.sent # <<>> =>
            LET n == (Len(chat.sent) - 2) \div 2
            IN  /\ Len(chat.sent) = 1 + 2 * n + 1
                /\ n <= Len(chat.conversation_history)
                /\ SubSeq(chat.sent, 1, 1 + 2 * n)
                        = build_conversation_messages(SubSeq(chat.conversation_history, 1, n))
                /\ chat.sent[Len(chat.sent)].role = "user"
    /\ chat.conversation_history # <<>> =>
            chat.generated_command
                = chat.conversation_history[Len(chat.conversation_history)].assistant_response
====
